---- MODULE Spec2Model ----
(***************************************************************************)
(* A model of the search query parser: the tokenizer (tokenizer.ts), the  *)
(* term parser (parser.ts) and the value resolvers it calls.              *)
(*                                                                         *)
(* A JavaScript string is modelled as a sequence of one-character strings; *)
(* offsets are 0-based as in the source, so the character at offset p of   *)
(* s is s[p + 1].                                                          *)
(***************************************************************************)
EXTENDS Integers, Sequences, FiniteSets, TLC

VARIABLES
    input,      \* the string given to tokenize / parse
    position,   \* the cursor of tokenize
    tokens,     \* the tokens pushed so far
    phase,      \* "tokenize" while the main loop runs, "done" once parse has ended
    options,    \* the options parse was called with
    now,        \* the clock the date resolver reads
    result,     \* what parse returned or raised
    table,      \* the module's array DEFAULT_OPERATORS, as it stands
    earlier     \* history: the options of the calls that have returned before this one

vars == <<input, position, tokens, phase, options, now, result, table, earlier>>

(***************************************************************************)
(* Strings                                                                 *)
(***************************************************************************)
CHAR_QUOTE_DOUBLE == "\""
CHAR_QUOTE_SINGLE == "'"
CHAR_NEGATION == "-"
CHAR_COLON == ":"
CHAR_ESCAPE == "\\"
CHAR_SPACE == " "
CHAR_LPAREN == "("
CHAR_RPAREN == ")"
CHAR_COMMA == ","

UpperLetters == <<"A", "B", "C", "D", "E", "F", "G", "H", "I", "J", "K", "L", "M",
                  "N", "O", "P", "Q", "R", "S", "T", "U", "V", "W", "X", "Y", "Z">>
LowerLetters == <<"a", "b", "c", "d", "e", "f", "g", "h", "i", "j", "k", "l", "m",
                  "n", "o", "p", "q", "r", "s", "t", "u", "v", "w", "x", "y", "z">>

\* String.prototype.toLowerCase / toUpperCase, one character
lowerChar(c) ==
    IF \E i \in 1..26 : UpperLetters[i] = c
    THEN LowerLetters[CHOOSE i \in 1..26 : UpperLetters[i] = c]
    ELSE c

upperChar(c) ==
    IF \E i \in 1..26 : LowerLetters[i] = c
    THEN UpperLetters[CHOOSE i \in 1..26 : LowerLetters[i] = c]
    ELSE c

toLowerCase(s) == [i \in 1..Len(s) |-> lowerChar(s[i])]
toUpperCase(s) == [i \in 1..Len(s) |-> upperChar(s[i])]

\* s.slice(a, b) for 0 <= a, b
slice(s, a, b) == SubSeq(s, a + 1, IF b > Len(s) THEN Len(s) ELSE b)

\* s.indexOf(c): the 0-based offset of the first c, -1 when there is none
indexOf(s, c) ==
    IF \E i \in 1..Len(s) : s[i] = c
    THEN (CHOOSE i \in 1..Len(s) : s[i] = c /\ \A j \in 1..(i - 1) : s[j] # c) - 1
    ELSE -1

includes(s, c) == \E i \in 1..Len(s) : s[i] = c

startsWith(s, c) == Len(s) > 0 /\ s[1] = c
endsWith(s, c) == Len(s) > 0 /\ s[Len(s)] = c

isQuoteChar(c) == c = CHAR_QUOTE_DOUBLE \/ c = CHAR_QUOTE_SINGLE

\* the delimiters of readUntilDelimiter
isDelimiter(c) ==
    \/ c = CHAR_SPACE
    \/ c = CHAR_QUOTE_DOUBLE
    \/ c = CHAR_QUOTE_SINGLE
    \/ c = CHAR_LPAREN
    \/ c = CHAR_RPAREN

(***************************************************************************)
(* Tokenizer helpers (closures of tokenize over input and position)       *)
(***************************************************************************)
RECURSIVE skipWhitespace(_, _)
skipWhitespace(inp, pos) ==
    IF pos < Len(inp) /\ inp[pos + 1] = CHAR_SPACE
    THEN skipWhitespace(inp, pos + 1)
    ELSE pos

RECURSIVE readQuotedLoop(_, _, _, _)
readQuotedLoop(inp, pos, quoteChar, acc) ==
    IF pos >= Len(inp)
    THEN [result |-> acc, position |-> pos]
    ELSE LET char == inp[pos + 1] IN
         IF char = CHAR_ESCAPE /\ pos + 1 < Len(inp)
         THEN readQuotedLoop(inp, pos + 2, quoteChar, Append(acc, inp[pos + 2]))
         ELSE IF char = quoteChar
              THEN [result |-> acc, position |-> pos + 1]
              ELSE readQuotedLoop(inp, pos + 1, quoteChar, Append(acc, char))

\* pos is the offset of the opening quote
readQuoted(inp, pos, quoteChar) == readQuotedLoop(inp, pos + 1, quoteChar, <<>>)

RECURSIVE readUntilDelimiterLoop(_, _, _)
readUntilDelimiterLoop(inp, pos, acc) ==
    IF pos < Len(inp) /\ ~isDelimiter(inp[pos + 1])
    THEN readUntilDelimiterLoop(inp, pos + 1, Append(acc, inp[pos + 1]))
    ELSE [result |-> acc, position |-> pos]

readUntilDelimiter(inp, pos) == readUntilDelimiterLoop(inp, pos, <<>>)

\* the inner "read text part until comma or delimiter" loops
RECURSIVE readPartLoop(_, _, _)
readPartLoop(inp, pos, acc) ==
    IF pos < Len(inp) /\ inp[pos + 1] # CHAR_COMMA /\ ~isDelimiter(inp[pos + 1])
    THEN readPartLoop(inp, pos + 1, Append(acc, inp[pos + 1]))
    ELSE [result |-> acc, position |-> pos]

readPart(inp, pos) == readPartLoop(inp, pos, <<>>)

\* a token recording the cursor after it was read in place of startPos
Token_CursorAsPosition(type, value, raw, pos) ==
    [type |-> type, value |-> value, raw |-> raw, position |-> pos + Len(raw)]

Token(type, value, raw, pos) ==
    [type |-> type, value |-> value, raw |-> raw, position |-> pos]

\* the while (true) loop that extends the value of a negated operator
RECURSIVE negatedValueLoop(_, _, _)
negatedValueLoop(inp, pos, value) ==
    LET r == IF pos < Len(inp)
             THEN IF isQuoteChar(inp[pos + 1])
                  THEN LET q == readQuoted(inp, pos, inp[pos + 1]) IN
                       [value |-> value \o slice(inp, pos, q.position),
                        position |-> q.position]
                  ELSE LET p == readPart(inp, pos) IN
                       [value |-> value \o p.result, position |-> p.position]
             ELSE [value |-> value, position |-> pos]
    IN IF r.position < Len(inp) /\ inp[r.position + 1] = CHAR_COMMA
       THEN negatedValueLoop(inp, r.position + 1, Append(r.value, CHAR_COMMA))
       ELSE r

\* the while (true) loop that extends the value of an operator
RECURSIVE operatorValueLoop(_, _, _)
operatorValueLoop(inp, pos, fullValue) ==
    LET needsValue == Len(fullValue) = 0 \/ endsWith(fullValue, CHAR_COMMA)
        r == IF needsValue /\ pos < Len(inp)
             THEN IF isQuoteChar(inp[pos + 1])
                  THEN LET q == readQuoted(inp, pos, inp[pos + 1]) IN
                       [value |-> fullValue \o slice(inp, pos, q.position),
                        position |-> q.position]
                  ELSE LET p == readPart(inp, pos) IN
                       [value |-> fullValue \o p.result, position |-> p.position]
             ELSE [value |-> fullValue, position |-> pos]
    IN IF r.position < Len(inp) /\ inp[r.position + 1] = CHAR_COMMA
       THEN operatorValueLoop(inp, r.position + 1, Append(r.value, CHAR_COMMA))
       ELSE r

Step(pos, emit) == [position |-> pos, emit |-> emit]

\* the negation branch, entered when input[startPos] = '-' is followed by a
\* character other than a space
scanNegated(inp, startPos) ==
    LET nextChar == inp[startPos + 2]
        pos == startPos + 1
    IN IF isQuoteChar(nextChar)
       THEN LET q == readQuoted(inp, pos, nextChar) IN
            Step(q.position,
                 <<Token("NEGATED", q.result, slice(inp, startPos, q.position), startPos)>>)
       ELSE IF nextChar = CHAR_LPAREN
       THEN LET r == readUntilDelimiter(inp, pos) IN
            IF Len(r.result) > 0
            THEN Step(r.position,
                      <<Token("NEGATED", r.result, slice(inp, startPos, r.position), startPos)>>)
            ELSE IF inp[r.position + 1] = CHAR_LPAREN
                 THEN Step(r.position - 1, <<>>)
                 ELSE Step(r.position, <<>>)
       ELSE LET r == readUntilDelimiter(inp, pos)
                v == IF endsWith(r.result, CHAR_COLON)
                     THEN negatedValueLoop(inp, r.position, r.result)
                     ELSE [value |-> r.result, position |-> r.position]
            IN IF Len(v.value) > 0
               THEN Step(v.position,
                         <<Token("NEGATED", v.value, slice(inp, startPos, v.position), startPos)>>)
               ELSE Step(v.position, <<>>)

\* "regular text (may contain operator)"
scanText(inp, startPos) ==
    LET r == readUntilDelimiter(inp, startPos)
        text == r.result
        colonIndex == indexOf(text, CHAR_COLON)
    IN IF Len(text) = 0
       THEN Step(IF r.position = startPos THEN r.position + 1 ELSE r.position, <<>>)
       ELSE IF toUpperCase(text) = <<"O", "R">>
       THEN Step(r.position,
                 <<Token("OR", <<"O", "R">>, slice(inp, startPos, r.position), startPos)>>)
       ELSE IF colonIndex > 0
       THEN LET key == IF colonIndex = Len(text) - 1
                       THEN slice(text, 0, Len(text) - 1)
                       ELSE slice(text, 0, colonIndex)
                first == IF colonIndex = Len(text) - 1
                         THEN <<>>
                         ELSE slice(text, colonIndex + 1, Len(text))
                v == operatorValueLoop(inp, r.position, first)
            IN IF Len(v.value) > 0 \/ colonIndex < Len(text) - 1
               THEN Step(v.position,
                         <<Token("OPERATOR", key \o <<CHAR_COLON>> \o v.value,
                                 slice(inp, startPos, v.position), startPos)>>)
               ELSE Step(v.position,
                         <<Token("TEXT", text, slice(inp, startPos, v.position), startPos)>>)
       ELSE Step(r.position,
                 <<Token("TEXT", text, slice(inp, startPos, r.position), startPos)>>)

\* one iteration of the main tokenization loop, entered with pos < length
scanToken(inp, pos) ==
    LET startPos == skipWhitespace(inp, pos) IN
    IF startPos >= Len(inp)
    THEN Step(startPos, <<>>)
    ELSE LET char == inp[startPos + 1] IN
         IF char = CHAR_LPAREN
         THEN Step(startPos + 1, <<Token("LPAREN", <<"(">>, <<"(">>, startPos)>>)
         ELSE IF char = CHAR_RPAREN
         THEN Step(startPos + 1, <<Token("RPAREN", <<")">>, <<")">>, startPos)>>)
         ELSE IF char = CHAR_NEGATION /\ startPos + 1 < Len(inp)
                 /\ inp[startPos + 2] # CHAR_SPACE
         THEN scanNegated(inp, startPos)
         ELSE IF isQuoteChar(char)
         THEN LET q == readQuoted(inp, startPos, char) IN
              Step(q.position,
                   <<Token("QUOTED", q.result, slice(inp, startPos, q.position), startPos)>>)
         ELSE scanText(inp, startPos)

(***************************************************************************)
(* String literals of the source, as character sequences                  *)
(***************************************************************************)
str_from == <<"f", "r", "o", "m">>
str_f == <<"f">>
str_sender == <<"s", "e", "n", "d", "e", "r">>
str_to == <<"t", "o">>
str_t == <<"t">>
str_recipient == <<"r", "e", "c", "i", "p", "i", "e", "n", "t">>
str_subject == <<"s", "u", "b", "j", "e", "c", "t">>
str_subj == <<"s", "u", "b", "j">>
str_s == <<"s">>
str_body == <<"b", "o", "d", "y">>
str_content == <<"c", "o", "n", "t", "e", "n", "t">>
str_b == <<"b">>
str_has == <<"h", "a", "s">>
str_is == <<"i", "s">>
str_in == <<"i", "n">>
str_folder == <<"f", "o", "l", "d", "e", "r">>
str_box == <<"b", "o", "x">>
str_mailbox == <<"m", "a", "i", "l", "b", "o", "x">>
str_date == <<"d", "a", "t", "e">>
str_d == <<"d">>
str_before == <<"b", "e", "f", "o", "r", "e">>
str_b4 == <<"b", "4">>
str_older == <<"o", "l", "d", "e", "r">>
str_older_than == <<"o", "l", "d", "e", "r", "_", "t", "h", "a", "n">>
str_after == <<"a", "f", "t", "e", "r">>
str_af == <<"a", "f">>
str_newer == <<"n", "e", "w", "e", "r">>
str_newer_than == <<"n", "e", "w", "e", "r", "_", "t", "h", "a", "n">>
str_label == <<"l", "a", "b", "e", "l">>
str_tag == <<"t", "a", "g">>
str_l == <<"l">>
str_header_k == <<"h", "e", "a", "d", "e", "r", "-", "k">>
str_hk == <<"h", "k">>
str_header_key == <<"h", "e", "a", "d", "e", "r", "-", "k", "e", "y">>
str_header_v == <<"h", "e", "a", "d", "e", "r", "-", "v">>
str_hv == <<"h", "v">>
str_header_value == <<"h", "e", "a", "d", "e", "r", "-", "v", "a", "l", "u", "e">>
str_size == <<"s", "i", "z", "e">>
str_larger == <<"l", "a", "r", "g", "e", "r">>
str_smaller == <<"s", "m", "a", "l", "l", "e", "r">>
str_text == <<"t", "e", "x", "t">>
str_phrase == <<"p", "h", "r", "a", "s", "e">>
str_or == <<"o", "r">>
str_group == <<"g", "r", "o", "u", "p">>
str_string == <<"s", "t", "r", "i", "n", "g">>
str_OR == <<"O", "R">>
str_custom_to == <<"c", "u", "s", "t", "o", "m", "-", "t", "o">>
str_Operator_q == <<"O", "p", "e", "r", "a", "t", "o", "r", " ", "'">>
str_q_is_not_allowed ==
    <<"'", " ", "i", "s", " ", "n", "o", "t", " ", "a", "l", "l", "o", "w", "e", "d">>
str_today == <<"t", "o", "d", "a", "y">>
str_yesterday == <<"y", "e", "s", "t", "e", "r", "d", "a", "y">>
str_tomorrow == <<"t", "o", "m", "o", "r", "r", "o", "w">>
str_last_week == <<"l", "a", "s", "t", " ", "w", "e", "e", "k">>
str_last_month == <<"l", "a", "s", "t", " ", "m", "o", "n", "t", "h">>
str_last_year == <<"l", "a", "s", "t", " ", "y", "e", "a", "r">>
str_this_week == <<"t", "h", "i", "s", " ", "w", "e", "e", "k">>
str_this_month == <<"t", "h", "i", "s", " ", "m", "o", "n", "t", "h">>
str_this_year == <<"t", "h", "i", "s", " ", "y", "e", "a", "r">>
str_constructor == <<"c", "o", "n", "s", "t", "r", "u", "c", "t", "o", "r">>
str___proto__ == <<"_", "_", "p", "r", "o", "t", "o", "_", "_">>

OperatorDef(name, aliases, type, allowNegation) ==
    [name |-> name, aliases |-> aliases, type |-> type, allowNegation |-> allowNegation]

DEFAULT_OPERATORS == <<
    OperatorDef(str_from, <<str_f, str_sender>>, str_string, TRUE),
    OperatorDef(str_to, <<str_t, str_recipient>>, str_string, TRUE),
    OperatorDef(str_subject, <<str_subj, str_s>>, str_string, TRUE),
    OperatorDef(str_body, <<str_content, str_b>>, str_string, TRUE),
    OperatorDef(str_has, <<>>, str_string, TRUE),
    OperatorDef(str_is, <<>>, str_string, TRUE),
    OperatorDef(str_in, <<str_folder, str_box, str_mailbox>>, str_string, TRUE),
    OperatorDef(str_date, <<str_d>>, str_date, FALSE),
    OperatorDef(str_before, <<str_b4, str_older, str_older_than>>, str_date, FALSE),
    OperatorDef(str_after, <<str_af, str_newer, str_newer_than>>, str_date, FALSE),
    OperatorDef(str_label, <<str_tag, str_l>>, str_string, TRUE),
    OperatorDef(str_header_k, <<str_hk, str_header_key>>, str_string, FALSE),
    OperatorDef(str_header_v, <<str_hv, str_header_value>>, str_string, FALSE),
    OperatorDef(str_size, <<str_larger, str_smaller>>, str_size, FALSE)
>>

(***************************************************************************)
(* Operator registry and value resolvers of the parser                     *)
(***************************************************************************)
Null == [null |-> TRUE]

\* Array.prototype.includes on a list of strings
listIncludes(list, s) == \E i \in 1..Len(list) : list[i] = s

RECURSIVE findOperatorFrom(_, _, _)
findOperatorFrom(lowerKey, operators, i) ==
    IF i > Len(operators)
    THEN Null
    ELSE IF operators[i].name = lowerKey \/ listIncludes(operators[i].aliases, lowerKey)
         THEN operators[i]
         ELSE findOperatorFrom(lowerKey, operators, i + 1)

\* findOperator comparing the key with the names only, the aliases never read
findOperator_NameOnly(key, operators) ==
    IF \E i \in 1..Len(operators) : operators[i].name = toLowerCase(key)
    THEN operators[CHOOSE i \in 1..Len(operators) :
                       /\ operators[i].name = toLowerCase(key)
                       /\ \A j \in 1..(i - 1) : operators[j].name # toLowerCase(key)]
    ELSE Null

findOperator(key, operators) == findOperatorFrom(toLowerCase(key), operators, 1)

Digits == <<"0", "1", "2", "3", "4", "5", "6", "7", "8", "9">>
isDigit(c) == \E i \in 1..10 : Digits[i] = c
digitValue(c) == (CHOOSE i \in 1..10 : Digits[i] = c) - 1

\* parseInt(s, 10) of a non-empty digit string
RECURSIVE parseIntFrom(_, _, _)
parseIntFrom(s, i, acc) ==
    IF i > Len(s) THEN acc ELSE parseIntFrom(s, i + 1, acc * 10 + digitValue(s[i]))

parseInt(s) == parseIntFrom(s, 1, 0)

allDigits(s) == \A i \in 1..Len(s) : isDigit(s[i])

KB == 1024

\* Byte counts pass 2^31, the largest integer the checker computes with, so
\* a byte count is held in two parts as hi * 2^20 + lo.  The byte counts of
\* the model stay below 2^53, where JavaScript numbers are exact.
Limb == KB * KB

carry(hi, lo) == [hi |-> hi + (lo \div Limb), lo |-> lo % Limb]

\* x * f for a factor f of at most 1024, and x + d for a digit d
times(x, f) == carry(x.hi * f, x.lo * f)
plus(x, d) == carry(x.hi, x.lo + d)

\* parseInt(s, 10) of a non-empty digit string, as a byte count
RECURSIVE parseBytesFrom(_, _, _)
parseBytesFrom(s, i, acc) ==
    IF i > Len(s) THEN acc ELSE parseBytesFrom(s, i + 1, plus(times(acc, 10), digitValue(s[i])))

parseBytes(s) == parseBytesFrom(s, 1, [hi |-> 0, lo |-> 0])

\* the groups of /^([<>=]?)(\d+)([kmg]?b?)?$/i: the sign, and what follows it
signOf(value) == IF Len(value) > 0 /\ value[1] \in {"<", ">", "="} THEN value[1] ELSE ""

afterSign(value) == IF signOf(value) = "" THEN value ELSE Tail(value)

\* the length of the longest run of digits rest begins with
digitCount(rest) ==
    IF \E i \in 1..Len(rest) : ~isDigit(rest[i])
    THEN (CHOOSE i \in 1..Len(rest) :
              ~isDigit(rest[i]) /\ \A j \in 1..(i - 1) : isDigit(rest[j])) - 1
    ELSE Len(rest)

\* the third group matching any run of characters
unitMatches_AnySuffix(unit) == TRUE

\* the third group, lower-cased, matches [kmg]?b?
unitMatches(unit) ==
    unit \in {<<>>, <<"b">>, <<"k">>, <<"m">>, <<"g">>, <<"k", "b">>, <<"m", "b">>, <<"g", "b">>}

\* the comparison with the tests for '<' and '>' exchanged
sizeComparison_Exchanged(sign) == IF sign = ">" THEN "lt" ELSE IF sign = "<" THEN "gt" ELSE "eq"

\* match[1] === '<' ? 'lt' : match[1] === '>' ? 'gt' : 'eq'
sizeComparison(sign) == IF sign = "<" THEN "lt" ELSE IF sign = ">" THEN "gt" ELSE "eq"

sizeBytes(bytes, unit) ==
    IF startsWith(unit, "k") THEN times(bytes, KB)
    ELSE IF startsWith(unit, "m") THEN times(times(bytes, KB), KB)
    ELSE IF startsWith(unit, "g") THEN times(times(times(bytes, KB), KB), KB)
    ELSE bytes

sizeOfGroups(sign, digits, unit) ==
    IF Len(digits) = 0 \/ ~unitMatches(unit)
    THEN Null
    ELSE [op |-> sizeComparison(sign), bytes |-> sizeBytes(parseBytes(digits), unit)]

sizeOfRest(sign, rest) ==
    sizeOfGroups(sign, SubSeq(rest, 1, digitCount(rest)),
                 toLowerCase(SubSeq(rest, digitCount(rest) + 1, Len(rest))))

parseSize(value) == sizeOfRest(signOf(value), afterSign(value))

\* the scan of splitValues; st = [values, current, inQuote, quoteChar]
RECURSIVE splitValuesLoop(_, _, _)
splitValuesLoop(inp, i, st) ==
    IF i > Len(inp)
    THEN IF Len(st.current) > 0 THEN Append(st.values, st.current) ELSE st.values
    ELSE LET char == inp[i] IN
         IF isQuoteChar(char) /\ ~st.inQuote
         THEN splitValuesLoop(inp, i + 1,
                  [st EXCEPT !.inQuote = TRUE, !.quoteChar = char,
                             !.current = Append(@, char)])
         ELSE IF st.inQuote /\ char = st.quoteChar
         THEN splitValuesLoop(inp, i + 1,
                  [st EXCEPT !.inQuote = FALSE, !.quoteChar = "",
                             !.current = Append(@, char)])
         ELSE IF char = CHAR_COMMA /\ ~st.inQuote
         THEN splitValuesLoop(inp, i + 1,
                  [st EXCEPT !.values = Append(@, st.current), !.current = <<>>])
         ELSE splitValuesLoop(inp, i + 1, [st EXCEPT !.current = Append(@, char)])

splitValues(inp) ==
    splitValuesLoop(inp, 1,
        [values |-> <<>>, current |-> <<>>, inQuote |-> FALSE, quoteChar |-> ""])

\* the quote stripping taking any character that both begins and ends the
\* value for a quote
cleanValue_AnyPair(v) ==
    IF Len(v) > 0 /\ v[1] = v[Len(v)] THEN slice(v, 1, Len(v) - 1) ELSE v

\* the quote stripping repeated in parseToken before each buildTerm
cleanValue(v) ==
    IF \/ (startsWith(v, CHAR_QUOTE_DOUBLE) /\ endsWith(v, CHAR_QUOTE_DOUBLE))
       \/ (startsWith(v, CHAR_QUOTE_SINGLE) /\ endsWith(v, CHAR_QUOTE_SINGLE))
    THEN slice(v, 1, Len(v) - 1)
    ELSE v

\* parseOperator of the tokenizer module
parseOperator(token) ==
    IF token.type # "OPERATOR"
    THEN Null
    ELSE LET colonIndex == indexOf(token.value, CHAR_COLON) IN
         IF colonIndex = -1
         THEN Null
         ELSE [key |-> toLowerCase(slice(token.value, 0, colonIndex)),
               value |-> slice(token.value, colonIndex + 1, Len(token.value))]

\* new Error(`Operator '${name}' is not allowed`)
notAllowedError(name) == [message |-> str_Operator_q \o name \o str_q_is_not_allowed]

\* validateOperator: the error it throws, Null when it returns
validateOperator(opDef, opts) ==
    IF "operatorsAllowed" \in DOMAIN opts /\ ~listIncludes(opts.operatorsAllowed, opDef.name)
    THEN notAllowedError(opDef.name)
    ELSE IF "operatorsDisallowed" \in DOMAIN opts
            /\ listIncludes(opts.operatorsDisallowed, opDef.name)
         THEN notAllowedError(opDef.name)
         ELSE Null


(***************************************************************************)
(* Dates (date.ts).  A Date is its local calendar fields                   *)
(* [year, month (0..11), date, hours]; the host time zone is taken to be   *)
(* UTC without daylight saving.  makeDate is what the Date setters do:     *)
(* fields out of range carry into the next larger field.                   *)
(***************************************************************************)
isLeapYear(y) == (y % 4 = 0 /\ y % 100 # 0) \/ y % 400 = 0

daysInMonth(y, m) ==
    IF m = 1 THEN (IF isLeapYear(y) THEN 29 ELSE 28)
    ELSE IF m \in {3, 5, 8, 10} THEN 30 ELSE 31

\* days from 0000-01-01 to the first day of year y
daysBeforeYear(y) == 365 * y + ((y + 3) \div 4) - ((y + 99) \div 100) + ((y + 399) \div 400)

RECURSIVE daysBeforeMonth(_, _)
daysBeforeMonth(y, m) ==
    IF m = 0 THEN 0 ELSE daysBeforeMonth(y, m - 1) + daysInMonth(y, m - 1)

\* the year that holds day number dn, and the month of year y that holds the
\* day numbered rem within the year
yearOfDay(dn) ==
    CHOOSE yy \in (dn \div 366)..(dn \div 365) :
        daysBeforeYear(yy) <= dn /\ dn < daysBeforeYear(yy + 1)

monthOfDay(y, rem) ==
    CHOOSE mm \in 0..11 :
        daysBeforeMonth(y, mm) <= rem /\ rem < daysBeforeMonth(y, mm) + daysInMonth(y, mm)

dateInMonth(y, m, rem, hours) ==
    [year |-> y, month |-> m, date |-> rem - daysBeforeMonth(y, m) + 1, hours |-> hours]

dateInYear(y, rem, hours) == dateInMonth(y, monthOfDay(y, rem), rem, hours)

dateOfDay(dn, hours) == dateInYear(yearOfDay(dn), dn - daysBeforeYear(yearOfDay(dn)), hours)

dateFromHours(total) == dateOfDay(total \div 24, total % 24)

\* the date of the given fields, a month outside 0..11 carried into the year
dateOfFields(y, m, date, hours) ==
    dateFromHours((daysBeforeYear(y) + daysBeforeMonth(y, m) + (date - 1)) * 24 + hours)

makeDate(year, month, date, hours) ==
    dateOfFields((year * 12 + month) \div 12, (year * 12 + month) % 12, date, hours)

\* Date.prototype.getDay: 0000-01-01 was a Saturday
getDay(d) == (daysBeforeYear(d.year) + daysBeforeMonth(d.year, d.month) + d.date - 1 + 6) % 7

resolveRelativeDate(amount, unit, clock) ==
    IF unit = "h" THEN makeDate(clock.year, clock.month, clock.date, clock.hours - amount)
    ELSE IF unit = "d" THEN makeDate(clock.year, clock.month, clock.date - amount, clock.hours)
    ELSE IF unit = "w" THEN makeDate(clock.year, clock.month, clock.date - amount * 7, clock.hours)
    ELSE IF unit = "m" THEN makeDate(clock.year, clock.month - amount, clock.date, clock.hours)
    ELSE IF unit = "y" THEN makeDate(clock.year - amount, clock.month, clock.date, clock.hours)
    ELSE clock

NaturalNames == {str_today, str_yesterday, str_tomorrow, str_last_week, str_last_month,
                 str_last_year, str_this_week, str_this_month, str_this_year}

NATURAL_DATES(name, clock) ==
    IF name = str_today THEN makeDate(clock.year, clock.month, clock.date, 0)
    ELSE IF name = str_yesterday THEN makeDate(clock.year, clock.month, clock.date - 1, 0)
    ELSE IF name = str_tomorrow THEN makeDate(clock.year, clock.month, clock.date + 1, 0)
    ELSE IF name = str_last_week THEN makeDate(clock.year, clock.month, clock.date - 7, 0)
    ELSE IF name = str_last_month THEN makeDate(clock.year, clock.month - 1, clock.date, 0)
    ELSE IF name = str_last_year THEN makeDate(clock.year - 1, clock.month, clock.date, 0)
    ELSE IF name = str_this_week
         THEN makeDate(clock.year, clock.month, clock.date - getDay(clock), 0)
    ELSE IF name = str_this_month THEN makeDate(clock.year, clock.month, 1, 0)
    ELSE makeDate(clock.year, 0, 1, 0)

\* String.prototype.trim, for the space character
RECURSIVE trimEnd(_)
trimEnd(s) == IF endsWith(s, CHAR_SPACE) THEN trimEnd(SubSeq(s, 1, Len(s) - 1)) ELSE s

RECURSIVE trimStart(_)
trimStart(s) == IF startsWith(s, CHAR_SPACE) THEN trimStart(Tail(s)) ELSE s

trim(s) == trimEnd(trimStart(s))

\* new Date(value) on a string, Null for an Invalid Date.  The ISO date-only
\* forms YYYY, YYYY-MM and YYYY-MM-DD are read; every other string is taken
\* to be an Invalid Date.
newDate(value) ==
    LET n == Len(value)
        shaped == /\ n \in {4, 7, 10}
                  /\ \A i \in 1..n : IF i \in {5, 8} THEN value[i] = "-" ELSE isDigit(value[i])
        y == parseInt(SubSeq(value, 1, 4))
        m == IF n >= 7 THEN parseInt(SubSeq(value, 6, 7)) ELSE 1
        d == IF n = 10 THEN parseInt(SubSeq(value, 9, 10)) ELSE 1
    IN IF shaped /\ m \in 1..12 /\ d >= 1 /\ d <= daysInMonth(y, m - 1)
       THEN [year |-> y, month |-> m - 1, date |-> d, hours |-> 0]
       ELSE Null

parseAbsoluteDate(value) == newDate(value)

\* the range with its two dates exchanged
rangeOf_Exchanged(d1, d2) == [dateRange |-> [start |-> d2, end |-> d1]]

rangeOf(d1, d2) == [dateRange |-> [start |-> d1, end |-> d2]]

\* the loop over the hyphens of a range, i the 1-based index of the character tried
RECURSIVE parseRangeFrom(_, _)
parseRangeFrom(trimmed, i) ==
    IF i > Len(trimmed)
    THEN Null
    ELSE IF trimmed[i] # "-" \/ i = 1 \/ i = Len(trimmed)
    THEN parseRangeFrom(trimmed, i + 1)
    ELSE IF parseAbsoluteDate(SubSeq(trimmed, 1, i - 1)) # Null
            /\ parseAbsoluteDate(SubSeq(trimmed, i + 1, Len(trimmed))) # Null
    THEN rangeOf(parseAbsoluteDate(SubSeq(trimmed, 1, i - 1)),
                 parseAbsoluteDate(SubSeq(trimmed, i + 1, Len(trimmed))))
    ELSE parseRangeFrom(trimmed, i + 1)

\* RELATIVE_DATE_REGEX = /^-(\d+)([dhwmy])$/i on a lower-cased string
matchesRelative(trimmed) ==
    /\ Len(trimmed) >= 3
    /\ trimmed[1] = "-"
    /\ allDigits(SubSeq(trimmed, 2, Len(trimmed) - 1))
    /\ trimmed[Len(trimmed)] \in {"d", "h", "w", "m", "y"}

\* the last two attempts of parseDate: the absolute date parsed, else a range
absoluteOrRange(trimmed, parsed) ==
    IF parsed # Null
    THEN [date |-> parsed]
    ELSE IF includes(trimmed, "-")
    THEN parseRangeFrom(trimmed, 1)
    ELSE Null

\* NATURAL_DATES is an object literal, so NATURAL_DATES[trimmed] also finds
\* the properties every object inherits from Object.prototype.  Two of them
\* have lower-case names, which a lower-cased key can equal: 'constructor',
\* the function Object, and '__proto__', the object Object.prototype.
\* Object() returns a new empty object; calling Object.prototype throws a
\* TypeError, since it is not a function.
InheritedNames == {str_constructor, str___proto__}

EmptyObject == [object |-> <<>>]

TypeError == [name |-> "TypeError"]

Thrown(error) == [throw |-> error]

inheritedCall(name) ==
    IF name = str_constructor THEN [date |-> EmptyObject] ELSE Thrown(TypeError)

\* parseDate on the trimmed, lower-cased value
parseTrimmed(trimmed, clock) ==
    IF matchesRelative(trimmed)
    THEN [date |-> resolveRelativeDate(parseInt(SubSeq(trimmed, 2, Len(trimmed) - 1)),
                                       trimmed[Len(trimmed)], clock)]
    ELSE IF trimmed \in NaturalNames
    THEN [date |-> NATURAL_DATES(trimmed, clock)]
    ELSE IF trimmed \in InheritedNames
    THEN inheritedCall(trimmed)
    ELSE absoluteOrRange(trimmed, parseAbsoluteDate(trimmed))

parseDate(value, clock) == parseTrimmed(toLowerCase(trim(value)), clock)


(***************************************************************************)
(* Term parser (parser.ts)                                                 *)
(***************************************************************************)
Term(type, value, negated) == [type |-> type, value |-> value, negated |-> negated]

\* the term with the date or the range parseDate found, if any; what
\* parseDate threw in place of the term
withDate(term, dateVal) ==
    IF dateVal = Null THEN term
    ELSE IF "throw" \in DOMAIN dateVal THEN dateVal
    ELSE IF "date" \in DOMAIN dateVal
         THEN [type |-> term.type, value |-> term.value, negated |-> term.negated,
               date |-> dateVal.date]
         ELSE [type |-> term.type, value |-> term.value, negated |-> term.negated,
               dateRange |-> dateVal.dateRange]

\* the term with the size parseSize found, if any
withSize(term, sizeVal) ==
    IF sizeVal = Null THEN term
    ELSE [type |-> term.type, value |-> term.value, negated |-> term.negated,
          size |-> sizeVal]

buildTerm(type, value, negated, valueType, clock) ==
    IF valueType = str_date
    THEN withDate(Term(type, value, negated), parseDate(value, clock))
    ELSE IF valueType = str_size
    THEN withSize(Term(type, value, negated), parseSize(value))
    ELSE Term(type, value, negated)

\* what parseToken hands back: the terms it returns (none for null, several
\* for an array), or the error validateOperator raised
Returned(terms) == [error |-> Null, terms |-> terms]
Raised(error) == [error |-> error, terms |-> <<>>]

\* the terms buildTerm made, or the first error it let through
thrownIn(built) == \E i \in 1..Len(built) : "throw" \in DOMAIN built[i]

firstThrown(built) ==
    built[CHOOSE i \in 1..Len(built) :
              "throw" \in DOMAIN built[i] /\ \A j \in 1..(i - 1) : "throw" \notin DOMAIN built[j]].throw

negatedTerms(built) == IF thrownIn(built) THEN Raised(firstThrown(built)) ELSE Returned(built)

listOrTerm(built) ==
    IF thrownIn(built) THEN Raised(firstThrown(built))
    ELSE IF Len(built) > 1
    THEN Returned(<<[type |-> str_or, value |-> str_OR, negated |-> FALSE, terms |-> built]>>)
    ELSE Returned(built)

\* the terms of a known operator's value: a list of two or more pieces maps
\* each piece to a term, anything else is one term of the whole value
operatorTerms(opDef, value, negated, clock) ==
    LET values == splitValues(value) IN
    IF Len(values) > 1
    THEN [i \in 1..Len(values) |->
              buildTerm(opDef.name, cleanValue(values[i]), negated, opDef.type, clock)]
    ELSE <<buildTerm(opDef.name, cleanValue(value), negated, opDef.type, clock)>>

\* the test `opDef && opDef.allowNegation` of the NEGATED case without its
\* second half
mayNegate_AnyOperator(opDef) == opDef # Null

\* the test `opDef && opDef.allowNegation` of the NEGATED case
mayNegate(opDef) == opDef # Null /\ opDef.allowNegation

parseNegated(token, operators, opts, clock) ==
    LET parsed == parseOperator([token EXCEPT !.type = "OPERATOR"])
        opDef == IF parsed = Null THEN Null ELSE findOperator(parsed.key, operators)
        isPhrase == includes(token.raw, CHAR_QUOTE_DOUBLE) \/ includes(token.raw, CHAR_QUOTE_SINGLE)
    IN IF includes(token.value, CHAR_COLON) /\ parsed # Null /\ mayNegate(opDef)
       THEN IF validateOperator(opDef, opts) # Null
            THEN Raised(validateOperator(opDef, opts))
            ELSE negatedTerms(operatorTerms(opDef, parsed.value, TRUE, clock))
       ELSE Returned(<<Term(IF isPhrase THEN str_phrase ELSE str_text, token.value, TRUE)>>)

\* the text term of an unknown key holding only what follows the colon
unknownOperatorTerm_ValueOnly(token) ==
    Term(str_text, slice(token.value, indexOf(token.value, CHAR_COLON) + 1, Len(token.value)),
         FALSE)

\* "Unknown operator, treat as text"
unknownOperatorTerm(token) == Term(str_text, token.value, FALSE)

parseOperatorToken(token, operators, opts, clock) ==
    LET parsed == parseOperator(token)
        opDef == IF parsed = Null THEN Null ELSE findOperator(parsed.key, operators)
    IN IF parsed = Null
       THEN Returned(<<>>)
       ELSE IF opDef # Null
       THEN IF validateOperator(opDef, opts) # Null
            THEN Raised(validateOperator(opDef, opts))
            ELSE listOrTerm(operatorTerms(opDef, parsed.value, FALSE, clock))
       ELSE Returned(<<unknownOperatorTerm(token)>>)

parseToken(token, operators, opts, clock) ==
    IF token.type = "TEXT" THEN Returned(<<Term(str_text, token.value, FALSE)>>)
    ELSE IF token.type = "QUOTED" THEN Returned(<<Term(str_phrase, token.value, FALSE)>>)
    ELSE IF token.type = "NEGATED" THEN parseNegated(token, operators, opts, clock)
    ELSE IF token.type = "OPERATOR" THEN parseOperatorToken(token, operators, opts, clock)
    ELSE Returned(<<>>)

Group(terms) == [type |-> str_group, value |-> <<>>, negated |-> FALSE, terms |-> terms]

\* the partition of processOrLogic; st = [orGroups, currentGroup]
RECURSIVE orGroupsFrom(_, _, _)
orGroupsFrom(terms, i, st) ==
    IF i > Len(terms)
    THEN IF Len(st.currentGroup) > 0
         THEN Append(st.orGroups, st.currentGroup)
         ELSE st.orGroups
    ELSE IF terms[i].type = str_or
         THEN IF Len(st.currentGroup) > 0
              THEN orGroupsFrom(terms, i + 1,
                       [orGroups |-> Append(st.orGroups, st.currentGroup),
                        currentGroup |-> <<>>])
              ELSE orGroupsFrom(terms, i + 1, st)
         ELSE orGroupsFrom(terms, i + 1,
                  [st EXCEPT !.currentGroup = Append(@, terms[i])])

processOrLogic(terms) ==
    LET hasOr == \E i \in 1..Len(terms) : terms[i].type = str_or
        orGroups == orGroupsFrom(terms, 1, [orGroups |-> <<>>, currentGroup |-> <<>>])
    IN IF ~hasOr
       THEN terms
       ELSE IF Len(orGroups) > 1
       THEN <<[type |-> str_or, value |-> <<>>, negated |-> FALSE,
               terms |-> [g \in 1..Len(orGroups) |->
                              IF Len(orGroups[g]) = 1
                              THEN orGroups[g][1]
                              ELSE Group(orGroups[g])]]>>
       ELSE terms

\* the scan for the RPAREN matching the LPAREN before index j; Len(tokens) + 1
\* when the balance never returns to zero
RECURSIVE matchingParen(_, _, _)
matchingParen(toks, j, balance) ==
    IF j > Len(toks)
    THEN j
    ELSE LET b == IF toks[j].type = "LPAREN" THEN balance + 1
                  ELSE IF toks[j].type = "RPAREN" THEN balance - 1
                  ELSE balance
         IN IF b = 0 THEN j ELSE matchingParen(toks, j + 1, b)

\* a matched pair pushing its group without the test for inner terms
groupOf_AlsoWhenEmpty(innerTerms) == <<Group(innerTerms)>>

\* what a matched pair pushes: a group of the inner terms, if there are any
groupOf(innerTerms) == IF Len(innerTerms) > 0 THEN <<Group(innerTerms)>> ELSE <<>>

\* an unmatched parenthesis token taken for a text term
skippedParen_AsText(token) == <<Term(str_text, token.value, FALSE)>>

\* what an unmatched LPAREN or a stray RPAREN pushes: nothing, `i++; continue`
skippedParen(token) == <<>>

\* the terms pushed first, then what the rest of the loop yields
pushedBefore(terms, rest) ==
    IF terms = <<>> THEN rest
    ELSE IF rest.error # Null THEN rest
    ELSE Returned(terms \o rest.terms)

RECURSIVE parseTokens(_, _, _, _)
RECURSIVE parseTokensFrom(_, _, _, _, _)

\* the while loop of parseTokens from index i (1-based): the terms pushed
\* from there on, or the error that ended the call
parseTokensFrom(toks, i, operators, opts, clock) ==
    IF i > Len(toks)
    THEN Returned(<<>>)
    ELSE LET token == toks[i] IN
         IF token.type = "LPAREN"
         THEN LET j == matchingParen(toks, i + 1, 1) IN
              IF j <= Len(toks)
              THEN LET inner == parseTokens(SubSeq(toks, i + 1, j - 1), operators, opts, clock) IN
                   IF inner.error # Null
                   THEN inner
                   ELSE LET rest == parseTokensFrom(toks, j + 1, operators, opts, clock) IN
                        IF rest.error # Null
                        THEN rest
                        ELSE Returned(groupOf(inner.terms) \o rest.terms)
              ELSE pushedBefore(skippedParen(token),
                                parseTokensFrom(toks, i + 1, operators, opts, clock))
         ELSE IF token.type = "RPAREN"
         THEN pushedBefore(skippedParen(token),
                           parseTokensFrom(toks, i + 1, operators, opts, clock))
         ELSE LET first == IF token.type = "OR"
                           THEN Returned(<<Term(str_or, str_OR, FALSE)>>)
                           ELSE parseToken(token, operators, opts, clock)
              IN IF first.error # Null
                 THEN first
                 ELSE LET rest == parseTokensFrom(toks, i + 1, operators, opts, clock) IN
                      IF rest.error # Null
                      THEN rest
                      ELSE Returned(first.terms \o rest.terms)

parseTokens(toks, operators, opts, clock) ==
    LET r == parseTokensFrom(toks, 1, operators, opts, clock) IN
    IF r.error # Null THEN r ELSE Returned(processOrLogic(r.terms))

\* the operators of a call: [...userOps, ...DEFAULT_OPERATORS]
operatorsOf(opts) ==
    LET userOps == IF "operators" \in DOMAIN opts THEN opts.operators ELSE <<>>
    IN userOps \o DEFAULT_OPERATORS

\* options.operators || []
userOpsOf(opts) == IF "operators" \in DOMAIN opts THEN opts.operators ELSE <<>>

\* the three arrays after a statement that adds the user's definitions to
\* the built-in array in place: defaultOps.unshift(...userOps)
spreadOperators_Unshift(userOps, defaultOps) ==
    [operators |-> userOps \o defaultOps, userOps |-> userOps, defaultOps |-> userOps \o defaultOps]

\* the three arrays after `operators = [...userOps, ...defaultOps]`: the
\* spread makes a new array and leaves the two it reads as they were
spreadOperators(userOps, defaultOps) ==
    [operators |-> userOps \o defaultOps, userOps |-> userOps, defaultOps |-> defaultOps]

\* the caller's options object once its operators array is as given
optionsWith(opts, userOps) ==
    IF "operators" \in DOMAIN opts THEN [opts EXCEPT !.operators = userOps] ELSE opts

\* parse after tokenize(input) has returned toks
parse(toks, opts, clock) == parseTokens(toks, operatorsOf(opts), opts, clock)


(***************************************************************************)
(* The state machine: parse(input, options) = tokenize(input), one         *)
(* iteration of its main loop per step, then parseTokens over the tokens.  *)
(***************************************************************************)
\* Inputs are drawn from four families:
\*   every string of at most MaxLen characters of Alphabet;
\*   at most MaxWords of Words, separated by single spaces;
\*   at most MaxStruct of StructWords (parentheses, OR and terms), likewise;
\*   one operator atom, negated or not: a key of Keys, a colon and at most
\*   MaxPieces of Pieces separated by commas.
MaxLen == 4
MaxWords == 3
MaxStruct == 5
MaxPieces == 3

Alphabet == {"t", "o", ":", ",", "\"", "-", " ", "(", ")", "\\"}

Words == <<
    <<"o">>, <<"-", "o">>, <<"t", ":", "o">>, <<"t", ":", "o", ",", "r">>,
    <<"-", "t", ":", "o">>, <<"d", ":", "o">>, <<"-", "d", ":", "o">>, <<"r", ":", "o">>,
    <<"o", "r">>, <<"(">>, <<")">>, <<"-", "(">>, <<"d", ":">> \o str___proto__
>>

StructWords == <<
    <<"o">>, <<"o", "r">>, <<"(">>, <<")">>, <<"(", "o">>
>>

Keys == <<
    <<"t">>, <<"t", "o">>, <<"T">>, <<"d">>, <<"r">>, <<"h", "k">>, <<"s", "i", "z", "e">>
>>

Pieces == <<
    <<"o">>, <<"\"", "o", "\"">>, <<"'", "r", "'">>, <<"\"", "o", ",", "r", "\"">>, <<>>, <<"\"">>
>>

RECURSIVE join(_, _)
join(strs, sep) ==
    IF Len(strs) = 0 THEN <<>>
    ELSE IF Len(strs) = 1 THEN strs[1]
    ELSE strs[1] \o sep \o join(Tail(strs), sep)

\* the strings made of at most n of the strings of list, joined by sep
Joined(list, lo, n, sep) ==
    UNION {{join([i \in 1..k |-> list[f[i]]], sep) : f \in [1..k -> 1..Len(list)]} : k \in lo..n}

CharInputs == UNION {[1..n -> Alphabet] : n \in 0..MaxLen}
WordInputs == Joined(Words, 0, MaxWords, <<" ">>)
StructInputs == Joined(StructWords, 0, MaxStruct, <<" ">>)
AtomInputs ==
    {neg \o Keys[k] \o <<":">> \o v :
        neg \in {<<>>, <<"-">>}, k \in 1..Len(Keys), v \in Joined(Pieces, 1, MaxPieces, <<",">>)}

Inputs == CharInputs \cup WordInputs \cup StructInputs \cup AtomInputs

\* the clock of the test suite: 2024-06-15T12:00:00
TestClock == [year |-> 2024, month |-> 5, date |-> 15, hours |-> 12]

NoOptions == [caseSensitive |-> FALSE]

CustomTo ==
    [name |-> str_to, aliases |-> <<>>, type |-> str_custom_to, valueType |-> str_string,
     allowNegation |-> TRUE]

OptionSet ==
    {NoOptions,
     [operatorsAllowed |-> <<str_to>>],
     [operatorsDisallowed |-> <<str_to>>],
     [operators |-> <<CustomTo>>]}

Init ==
    /\ input \in Inputs
    /\ position = 0
    /\ tokens = <<>>
    /\ phase = "tokenize"
    /\ options = NoOptions
    /\ now = TestClock
    /\ result = Null
    /\ table = DEFAULT_OPERATORS
    /\ earlier = {}

\* one iteration of the main tokenization loop
TokenizeStep ==
    /\ phase = "tokenize"
    /\ position < Len(input)
    /\ LET s == scanToken(input, position) IN
       /\ position' = s.position
       /\ tokens' = tokens \o s.emit
    /\ UNCHANGED <<input, phase, options, now, result, table, earlier>>

\* tokenize has returned; parseTokens runs to its return or to the error
Parse(opts) ==
    /\ phase = "tokenize"
    /\ position >= Len(input)
    /\ result' = parseTokens(tokens, spreadOperators(userOpsOf(opts), table).operators, opts, now)
    /\ table' = spreadOperators(userOpsOf(opts), table).defaultOps
    /\ options' = optionsWith(opts, spreadOperators(userOpsOf(opts), table).userOps)
    /\ phase' = "done"
    /\ UNCHANGED <<input, position, tokens, now, earlier>>

Next ==
    \/ TokenizeStep
    \/ \E opts \in OptionSet : Parse(opts)

Spec == Init /\ [][Next]_vars

\* The tokenizer alone on every string of at most MaxLexLen characters of
\* LexAlphabet; the main loop keeps running while its condition holds.
MaxLexLen == 3

LexAlphabet == {"-", "(", ")", "o", " ", "\""}

LexInit ==
    /\ input \in UNION {[1..n -> LexAlphabet] : n \in 0..MaxLexLen}
    /\ position = 0
    /\ tokens = <<>>
    /\ phase = "tokenize"
    /\ options = NoOptions
    /\ now = TestClock
    /\ result = Null
    /\ table = DEFAULT_OPERATORS
    /\ earlier = {}

FairSpec == LexInit /\ [][Next]_vars /\ WF_vars(TokenizeStep)

\* tokenize as a function of its input: the main loop run until it ends
RECURSIVE tokenizeFrom(_, _, _)
tokenizeAfter(inp, s, toks) == tokenizeFrom(inp, s.position, toks \o s.emit)

tokenizeFrom(inp, pos, toks) ==
    IF pos < Len(inp) THEN tokenizeAfter(inp, scanToken(inp, pos), toks) ELSE toks

tokenize(inp) == tokenizeFrom(inp, 0, <<>>)

\* parse on one operator atom key:value or -key:value, for every name and
\* alias of the operators in several letter casings, with and without user
\* definitions.
str_Prio == <<"P", "r", "i", "o">>
str_P == <<"P">>
str_priority == <<"p", "r", "i", "o", "r", "i", "t", "y">>

\* a user definition whose name and alias hold upper-case letters
CustomPrio ==
    [name |-> str_Prio, aliases |-> <<str_P>>, type |-> str_priority, valueType |-> str_string,
     allowNegation |-> TRUE]

capitalize(s) == IF Len(s) = 0 THEN s ELSE <<upperChar(s[1])>> \o Tail(s)

Casings(k) == {k, toLowerCase(k), toUpperCase(k), capitalize(toLowerCase(k))}

NamesAndAliases(operators) ==
    UNION {{operators[i].name} \cup {operators[i].aliases[a] : a \in 1..Len(operators[i].aliases)} :
              i \in 1..Len(operators)}

LookupKeys == UNION {Casings(k) : k \in NamesAndAliases(<<CustomPrio>> \o DEFAULT_OPERATORS)}

LookupValues ==
    {<<"o">>, <<"o", ",", "r">>, <<"\"", "o", " ", "r", "\"">>, <<"-", "1", "m">>,
     <<"2", "0", "2", "4", "-", "0", "1", "-", "3", "1">>, <<">", "1", "k", "b">>,
     <<"2", "0", "2", "3", "-", "2", "0", "2", "4">>, str_constructor, str___proto__}

LookupInputs ==
    {neg \o k \o <<":">> \o v : neg \in {<<>>, <<"-">>}, k \in LookupKeys, v \in LookupValues}

\* a user definition of the name and kind 'size' whose values are strings
CustomSize ==
    [name |-> str_size, aliases |-> <<>>, type |-> str_size, valueType |-> str_string,
     allowNegation |-> FALSE]

LookupOptionSet ==
    {NoOptions,
     [operators |-> <<CustomTo>>],
     [operators |-> <<CustomPrio>>],
     [operators |-> <<CustomSize>>],
     [operatorsAllowed |-> <<str_to, str_before, str_size>>]}

LookupInit ==
    /\ input \in LookupInputs
    /\ position = 0
    /\ tokens = <<>>
    /\ phase = "tokenize"
    /\ options = NoOptions
    /\ now = TestClock
    /\ result = Null
    /\ table = DEFAULT_OPERATORS
    /\ earlier = {}

LookupNext ==
    \/ TokenizeStep
    \/ \E opts \in LookupOptionSet : Parse(opts)

LookupSpec == LookupInit /\ [][LookupNext]_vars

\* parse on the atom size:v for every string v of at most MaxSizeLen
\* characters of SizeAlphabet
MaxSizeLen == 4

SizeAlphabet == {"<", ">", "=", "0", "7", "b", "k", "m", "g", "K", "B"}

SizeInit ==
    /\ input \in {str_size \o <<":">> \o v : v \in UNION {[1..n -> SizeAlphabet] : n \in 0..MaxSizeLen}}
    /\ position = 0
    /\ tokens = <<>>
    /\ phase = "tokenize"
    /\ options = NoOptions
    /\ now = TestClock
    /\ result = Null
    /\ table = DEFAULT_OPERATORS
    /\ earlier = {}

SizeNext ==
    \/ TokenizeStep
    \/ Parse(NoOptions)

SizeSpec == SizeInit /\ [][SizeNext]_vars

\* parseDate called on a date string under a clock: the relative offsets of
\* at most MaxAmount units, the natural names, absolute dates, ranges and
\* strings that are no date, on the first and last days of every month of a
\* leap year and of the year before it.
MaxAmount == 13

\* the decimal digits of n
RECURSIVE toDigits(_)
toDigits(n) == IF n < 10 THEN <<Digits[n + 1]>> ELSE Append(toDigits(n \div 10), Digits[(n % 10) + 1])

RelativeInputs ==
    {<<"-">> \o toDigits(n) \o <<u>> : n \in 0..MaxAmount, u \in {"h", "d", "w", "m", "y", "M", "Y"}}

NaturalInputs ==
    NaturalNames \cup {toUpperCase(str_last_month), <<" ">> \o str_last_year \o <<" ">>}

OtherInputs ==
    {<<"2", "0", "2", "4", "-", "0", "1", "-", "3", "1">>,
     <<"2", "0", "2", "4", "-", "0", "2">>,
     <<"2", "0", "2", "4">>,
     <<"2", "0", "2", "3", "-", "2", "0", "2", "4">>,
     <<"2", "0", "2", "3", "-", "0", "1", "-", "0", "1", "-",
       "2", "0", "2", "3", "-", "1", "2", "-", "3", "1">>,
     <<"2", "0", "2", "4", "-", "1", "3", "-", "0", "1">>,
     <<"2", "0", "2", "3", "-", "0", "1", "-", "2", "0", "2", "4">>,
     <<"2", "0", "2", "3", "-", "2", "0", "2", "4", "-", "0", "2">>,
     <<"2", "0", "2", "3", "-", "-", "2", "0", "2", "4">>,
     <<"2", "0", "2", "3", "-">>, <<"-", "2", "0", "2", "3">>,
     <<" ", "2", "0", "2", "3", "-", "2", "0", "2", "4", " ">>,
     <<"o">>, <<>>, <<"-", "m">>, <<"-", "1", "x">>,
     str_constructor, str___proto__, capitalize(str_constructor)}

Clocks ==
    {c \in [year : {2023, 2024}, month : 0..11, date : {1, 15, 28, 29, 30, 31}, hours : {0, 12, 23}] :
        c.date <= daysInMonth(c.year, c.month)}

DateInit ==
    /\ input \in RelativeInputs \cup NaturalInputs \cup OtherInputs
    /\ position = 0
    /\ tokens = <<>>
    /\ phase = "parseDate"
    /\ options = NoOptions
    /\ now \in Clocks
    /\ result = Null
    /\ table = DEFAULT_OPERATORS
    /\ earlier = {}

\* the call parseDate(input): what it returns, or what it throws
ParseDate ==
    /\ phase = "parseDate"
    /\ result' = parseDate(input, now)
    /\ phase' = "done"
    /\ UNCHANGED <<input, position, tokens, options, now, table, earlier>>

DateSpec == DateInit /\ [][ParseDate]_vars

(***************************************************************************)
(* validate (parser.ts): one character of the input per step               *)
(***************************************************************************)
str_Unmatched_quote ==
    <<"U", "n", "m", "a", "t", "c", "h", "e", "d", " ", "q", "u", "o", "t", "e", ":", " ">>
str_Unmatched_lparen == <<"U", "n", "m", "a", "t", "c", "h", "e", "d", " ", "(">>
str_Unmatched_rparen == <<"U", "n", "m", "a", "t", "c", "h", "e", "d", " ", ")">>

\* the body of the loop with the parentheses counted inside quotes as well
validateChar_CountsInQuotes(st, char) ==
    IF isQuoteChar(char) /\ ~st.inQuote
    THEN [st EXCEPT !.inQuote = TRUE, !.quoteChar = char]
    ELSE IF char = st.quoteChar /\ st.inQuote
    THEN [st EXCEPT !.inQuote = FALSE, !.quoteChar = ""]
    ELSE IF char = CHAR_LPAREN THEN [st EXCEPT !.parenBalance = @ + 1]
    ELSE IF char = CHAR_RPAREN THEN [st EXCEPT !.parenBalance = @ - 1]
    ELSE st

\* the body of the loop; st = [inQuote, quoteChar, parenBalance]
validateChar(st, char) ==
    IF isQuoteChar(char) /\ ~st.inQuote
    THEN [st EXCEPT !.inQuote = TRUE, !.quoteChar = char]
    ELSE IF char = st.quoteChar /\ st.inQuote
    THEN [st EXCEPT !.inQuote = FALSE, !.quoteChar = ""]
    ELSE IF ~st.inQuote /\ char = CHAR_LPAREN THEN [st EXCEPT !.parenBalance = @ + 1]
    ELSE IF ~st.inQuote /\ char = CHAR_RPAREN THEN [st EXCEPT !.parenBalance = @ - 1]
    ELSE st

\* the errors pushed after the loop
validateErrors(st) ==
    (IF st.inQuote THEN <<str_Unmatched_quote \o <<st.quoteChar>>>> ELSE <<>>)
        \o (IF st.parenBalance # 0
            THEN <<IF st.parenBalance > 0 THEN str_Unmatched_lparen ELSE str_Unmatched_rparen>>
            ELSE <<>>)

validateResult(errors) == [valid |-> Len(errors) = 0, errors |-> errors]

\* validate as a function of its input: the loop run to its end
RECURSIVE validateFrom(_, _, _)
validateFrom(inp, i, st) ==
    IF i > Len(inp) THEN st ELSE validateFrom(inp, i + 1, validateChar(st, inp[i]))

validate(inp) ==
    validateResult(validateErrors(
        validateFrom(inp, 1, [inQuote |-> FALSE, quoteChar |-> "", parenBalance |-> 0])))

\* validate on every string of at most MaxValidateLen characters of
\* ValidateAlphabet; result holds the variables of the loop until it returns
MaxValidateLen == 5

ValidateAlphabet == {"\"", "'", "(", ")", "o", "\\"}

ValidateInit ==
    /\ input \in UNION {[1..n -> ValidateAlphabet] : n \in 0..MaxValidateLen}
    /\ position = 0
    /\ tokens = <<>>
    /\ phase = "validate"
    /\ options = NoOptions
    /\ now = TestClock
    /\ result = [inQuote |-> FALSE, quoteChar |-> "", parenBalance |-> 0]
    /\ table = DEFAULT_OPERATORS
    /\ earlier = {}

ValidateStep ==
    /\ phase = "validate"
    /\ position < Len(input)
    /\ result' = validateChar(result, input[position + 1])
    /\ position' = position + 1
    /\ UNCHANGED <<input, tokens, phase, options, now, table, earlier>>

ValidateReturn ==
    /\ phase = "validate"
    /\ position >= Len(input)
    /\ result' = validateResult(validateErrors(result))
    /\ phase' = "done"
    /\ UNCHANGED <<input, position, tokens, options, now, table, earlier>>

ValidateNext ==
    \/ ValidateStep
    \/ ValidateReturn

ValidateSpec == ValidateInit /\ [][ValidateNext]_vars


\* parse on at most MaxTripWords of TripWords separated by single spaces,
\* with and without user definitions of which the first carries the name of
\* the second as an alias.
MaxTripWords == 3

TripWords == <<
    <<"o">>, <<"t", ":", "o">>, <<"t", ":", "o", "r", "o">>,
    <<"t", ":", "\"", "o", " ", "r", "\"">>, <<"t", ":", "\"", "o", ",", "r", "\"">>,
    <<"t", ":", "\"", "\"">>, <<"t", ":", "\"", "(", "\"">>,
    <<"t", ":", "\"", "o", "\\", "\"", "r", "\"">>, <<"r", ":", "\"", "o", " ", "r", "\"">>,
    <<"q", ":", "o">>, <<"d", ":", "-", "1", "m">>, <<"t", ":">>, <<"(">>
>>

CustomY ==
    [name |-> <<"y">>, aliases |-> <<<<"x">>>>, type |-> str_string, valueType |-> str_string,
     allowNegation |-> TRUE]

CustomX ==
    [name |-> <<"x">>, aliases |-> <<<<"q">>>>, type |-> str_string, valueType |-> str_string,
     allowNegation |-> TRUE]

TripOptionSet == {NoOptions, [operators |-> <<CustomY, CustomX>>]}

TripInit ==
    /\ input \in Joined(TripWords, 0, MaxTripWords, <<" ">>)
    /\ position = 0
    /\ tokens = <<>>
    /\ phase = "tokenize"
    /\ options = NoOptions
    /\ now = TestClock
    /\ result = Null
    /\ table = DEFAULT_OPERATORS
    /\ earlier = {}

TripNext ==
    \/ TokenizeStep
    \/ \E opts \in TripOptionSet : Parse(opts)

TripSpec == TripInit /\ [][TripNext]_vars

\* parse called again and again by one caller, the clock fixed: every call
\* takes an input of SessionInputs and options of SessionOptionSet.
SessionInputs ==
    {<<"o">>, <<"q", ":", "o">>, <<"x", ":", "o">>, <<"t", ":", "o">>, <<"-", "t", ":", "o">>,
     <<"d", ":", "o">>, <<"(", "o", " ", "o", "r", " ", "t", ":", "o", ",", "r", ")">>}

SessionOptionSet ==
    {NoOptions,
     [operators |-> <<CustomY, CustomX>>],
     [operators |-> <<CustomTo>>],
     [operatorsDisallowed |-> <<str_to>>]}

SessionInit ==
    /\ input \in SessionInputs
    /\ position = 0
    /\ tokens = <<>>
    /\ phase = "tokenize"
    /\ options \in SessionOptionSet
    /\ now = TestClock
    /\ result = Null
    /\ table = DEFAULT_OPERATORS
    /\ earlier = {}

\* the call has returned or raised; the caller makes the next one
NextCall ==
    /\ phase = "done"
    /\ input' \in SessionInputs
    /\ options' \in SessionOptionSet
    /\ position' = 0
    /\ tokens' = <<>>
    /\ phase' = "tokenize"
    /\ result' = Null
    /\ earlier' = earlier \cup {options}
    /\ UNCHANGED <<now, table>>

SessionNext ==
    \/ TokenizeStep
    \/ Parse(options)
    \/ NextCall

SessionSpec == SessionInit /\ [][SessionNext]_vars

\* parse on the atom from:v for every string v of at most MaxQuotedLen
\* characters of QuotedAlphabet
MaxQuotedLen == 5

QuotedAlphabet == {"\"", "'", "\\", ",", "o"}

QuotedInit ==
    /\ input \in {str_from \o <<":">> \o v : v \in UNION {[1..n -> QuotedAlphabet] : n \in 0..MaxQuotedLen}}
    /\ position = 0
    /\ tokens = <<>>
    /\ phase = "tokenize"
    /\ options = NoOptions
    /\ now = TestClock
    /\ result = Null
    /\ table = DEFAULT_OPERATORS
    /\ earlier = {}

QuotedSpec == QuotedInit /\ [][SizeNext]_vars

(***************************************************************************)
(* extractOperators (parser.ts)                                            *)
(***************************************************************************)
\* Set.prototype.add on a set kept in insertion order
setAdd(list, s) == IF listIncludes(list, s) THEN list ELSE Append(list, s)

\* the body of the loop over the tokens
extractToken(token, operators) ==
    IF token.type = "OPERATOR" /\ parseOperator(token) # Null
    THEN setAdd(operators, parseOperator(token).key)
    ELSE operators

RECURSIVE extractFrom(_, _, _)
extractFrom(toks, i, operators) ==
    IF i > Len(toks) THEN operators
    ELSE extractFrom(toks, i + 1, extractToken(toks[i], operators))

\* extractOperators once tokenize has returned toks
extractOperators(toks) == extractFrom(toks, 1, <<>>)

\* tokenize has returned; the keys are collected
Extract ==
    /\ phase = "tokenize"
    /\ position >= Len(input)
    /\ result' = extractOperators(tokens)
    /\ phase' = "done"
    /\ UNCHANGED <<input, position, tokens, options, now, table, earlier>>

ExtractNext ==
    \/ TokenizeStep
    \/ Extract

ExtractSpec == Init /\ [][ExtractNext]_vars

(***************************************************************************)
(* Properties                                                              *)
(***************************************************************************)
TokenizeReturned == position >= Len(input)

ParseReturned == phase = "done" /\ result.error = Null
ParseRaised == phase = "done" /\ result.error # Null

\* C1: for every input string tokenize terminates: the main loop ends and the
\* token sequence is returned, also after an unmatched quote or parenthesis
\* and when '-' is directly followed by '(' or ')'.
C1_TokenizeTerminates == <>TokenizeReturned

(***************************************************************************)
(* Operator atoms of the token sequence, as the claims speak of them       *)
(***************************************************************************)
\* an operator atom: an operator token, or a negated token of the form key:value
IsAtom(t) ==
    \/ t.type = "OPERATOR"
    \/ t.type = "NEGATED" /\ indexOf(t.value, CHAR_COLON) >= 0

\* the key of an atom as typed, and the text after its first colon
AtomKey(t) == slice(t.value, 0, indexOf(t.value, CHAR_COLON))
AtomValue(t) == slice(t.value, indexOf(t.value, CHAR_COLON) + 1, Len(t.value))

\* the first operator of the call's operators that carries the key, in lower
\* case, as its name or as an alias; Null when there is none
Resolve(key, opts) ==
    LET ops == operatorsOf(opts)
        hits == {i \in 1..Len(ops) :
                    \/ ops[i].name = toLowerCase(key)
                    \/ \E a \in 1..Len(ops[i].aliases) : ops[i].aliases[a] = toLowerCase(key)}
    IN IF hits = {} THEN Null ELSE ops[CHOOSE i \in hits : \A j \in hits : i <= j]

\* the registered operator an atom resolves to under the options, or Null
AtomOperator(t, opts) == Resolve(AtomKey(t), opts)

HasAllowList(opts) == "operatorsAllowed" \in DOMAIN opts
HasDenyList(opts) == "operatorsDisallowed" \in DOMAIN opts

\* the lists of the options reject the operator name
Rejects(opts, name) ==
    \/ HasAllowList(opts) /\ \A i \in 1..Len(opts.operatorsAllowed) : opts.operatorsAllowed[i] # name
    \/ HasDenyList(opts) /\ \E i \in 1..Len(opts.operatorsDisallowed) : opts.operatorsDisallowed[i] = name

\* token i is an atom that resolves to a registered operator the lists reject
RejectedAtom(i) ==
    /\ IsAtom(tokens[i])
    /\ AtomOperator(tokens[i], options) # Null
    /\ Rejects(options, AtomOperator(tokens[i], options).name)

NotAllowed(name) == [message |-> str_Operator_q \o name \o str_q_is_not_allowed]

\* parse raised the error naming the operator of token i, returning no terms
RaisedFor(i) ==
    /\ result.error = NotAllowed(AtomOperator(tokens[i], options).name)
    /\ result.terms = <<>>

\* C2: whenever the input contains an operator atom, plain or
\* negated, by name or alias, at any depth, that resolves to an operator the
\* allow or deny list rejects, parse raises "Operator '<name>' is not allowed"
\* with the canonical name of such an operator and returns nothing.
C2_RejectedAtomRaises ==
    (phase = "done" /\ \E i \in 1..Len(tokens) : RejectedAtom(i))
        => \E i \in 1..Len(tokens) : RejectedAtom(i) /\ RaisedFor(i)

\* C3: a policy violation is the only error parse raises: if parse raises,
\* an allow or deny list was supplied and some operator atom of the input
\* resolves to an operator the lists reject, which the error names.  Unknown
\* keys, malformed sizes and dates, unmatched quotes and parentheses never
\* make parse raise.
C3_OnlyPolicyErrors ==
    ParseRaised
        => /\ HasAllowList(options) \/ HasDenyList(options)
           /\ \E i \in 1..Len(tokens) : RejectedAtom(i) /\ RaisedFor(i)

(***************************************************************************)
(* Lists of values and term kinds, as the claims speak of them             *)
(***************************************************************************)
IsLeaf(t) == DOMAIN t = {"type", "value", "negated"}

\* the quote character open just before index i of v, "" when none is
RECURSIVE OpenQuoteBefore(_, _)
OpenQuoteBefore(v, i) ==
    IF i <= 1
    THEN ""
    ELSE LET q == OpenQuoteBefore(v, i - 1)
             c == v[i - 1]
         IN IF q = ""
            THEN IF c \in {"\"", "'"} THEN c ELSE ""
            ELSE IF c = q THEN "" ELSE q

\* the indices of the unquoted commas of v
UnquotedCommas(v) == {i \in 1..Len(v) : v[i] = "," /\ OpenQuoteBefore(v, i) = ""}

\* the n-th unquoted comma; 0 before the first and Len(v) + 1 after the last
CommaAt(v, n) ==
    IF n = 0 THEN 0
    ELSE IF n > Cardinality(UnquotedCommas(v)) THEN Len(v) + 1
    ELSE CHOOSE i \in UnquotedCommas(v) :
             Cardinality({j \in UnquotedCommas(v) : j < i}) = n - 1

\* the stretches of v between its unquoted commas
Segments(v) ==
    [n \in 1..(Cardinality(UnquotedCommas(v)) + 1) |->
        SubSeq(v, CommaAt(v, n - 1) + 1, CommaAt(v, n) - 1)]

\* the pieces of a value: its segments, an empty one after the last comma
\* not counted
ListPieces(v) ==
    LET segs == Segments(v) IN
    IF segs[Len(segs)] = <<>> THEN SubSeq(segs, 1, Len(segs) - 1) ELSE segs

\* a piece without the quote character it begins and ends with
Unquote(piece) ==
    IF Len(piece) >= 1 /\ piece[1] \in {"\"", "'"} /\ piece[Len(piece)] = piece[1]
    THEN SubSeq(piece, 2, Len(piece) - 1)
    ELSE piece

\* the term kind an operator definition declares: the type field of a
\* definition that has a value type beside it; for the built-in table, whose
\* type field holds the value type, the kind the test suite expects
DeclaredKind(opDef) ==
    IF "valueType" \in DOMAIN opDef THEN opDef.type
    ELSE IF opDef.name = str_header_k THEN str_header_key
    ELSE IF opDef.name = str_header_v THEN str_header_value
    ELSE opDef.name

NameAsKind(opDef) == opDef.name

\* the input is one operator atom that resolves to an accepted operator
OneOperatorAtom ==
    /\ phase = "done"
    /\ Len(tokens) = 1
    /\ tokens[1].type = "OPERATOR"
    /\ AtomOperator(tokens[1], options) # Null
    /\ ~Rejects(options, AtomOperator(tokens[1], options).name)

\* one operator atom with k >= 2 pieces yields one Or term whose k subterms
\* are leaves of kind Kind(operator) holding the unquoted pieces in order
ListExpansion(Kind(_)) ==
    LET pieces == ListPieces(AtomValue(tokens[1]))
        opDef == AtomOperator(tokens[1], options)
    IN (OneOperatorAtom /\ Len(pieces) >= 2)
           => /\ result.error = Null
              /\ Len(result.terms) = 1
              /\ result.terms[1].type = str_or
              /\ result.terms[1].negated = FALSE
              /\ "terms" \in DOMAIN result.terms[1]
              /\ Len(result.terms[1].terms) = Len(pieces)
              /\ \A n \in 1..Len(pieces) :
                     LET sub == result.terms[1].terms[n] IN
                     /\ sub.type = Kind(opDef)
                     /\ sub.value = Unquote(pieces[n])
                     /\ sub.negated = FALSE
                     /\ "terms" \notin DOMAIN sub

\* C4: parsing one operator atom whose key resolves to a registered operator
\* and whose value splits on unquoted commas into k >= 2 pieces yields
\* exactly one Or term, not negated, with k leaf subterms of the operator's
\* declared kind, in piece order, each holding its piece without one layer
\* of matching quotes.
C4_ListExpansion == ListExpansion(DeclaredKind)

\* the same with the operator's name for the kind of the subterms
ListExpansionByName == ListExpansion(NameAsKind)

\* a well-formed piece: a non-empty bare run, or a quoted string
WellFormedPiece(piece) ==
    /\ Len(piece) >= 1
    /\ \/ \A i \in 1..Len(piece) : ~isDelimiter(piece[i]) /\ piece[i] # CHAR_ESCAPE
       \/ /\ Len(piece) >= 2
          /\ piece[1] \in {"\"", "'"}
          /\ piece[Len(piece)] = piece[1]
          /\ \A i \in 2..(Len(piece) - 1) : piece[i] \notin {piece[1], CHAR_ESCAPE}

\* the input is -key:v1,...,vk for a bare key and well-formed pieces
NegatedAtomInput ==
    /\ Len(input) >= 3
    /\ input[1] = CHAR_NEGATION
    /\ indexOf(Tail(input), CHAR_COLON) >= 1
    /\ LET key == slice(Tail(input), 0, indexOf(Tail(input), CHAR_COLON))
           value == slice(Tail(input), indexOf(Tail(input), CHAR_COLON) + 1, Len(input) - 1)
       IN /\ \A i \in 1..Len(key) : ~isDelimiter(key[i]) /\ key[i] \notin {CHAR_NEGATION, CHAR_COMMA}
          /\ \A n \in 1..Len(Segments(value)) : WellFormedPiece(Segments(value)[n])

\* the negated atom -key:v1,...,vk of a negation-permitting operator yields
\* the k negated leaves of kind Kind(operator) holding the unquoted pieces
NegatedList(Kind(_)) ==
    LET key == slice(Tail(input), 0, indexOf(Tail(input), CHAR_COLON))
        value == slice(Tail(input), indexOf(Tail(input), CHAR_COLON) + 1, Len(input) - 1)
        opDef == Resolve(key, options)
    IN (phase = "done" /\ NegatedAtomInput /\ opDef # Null /\ opDef.allowNegation
            /\ ~Rejects(options, opDef.name))
           => /\ result.error = Null
              /\ result.terms =
                     [n \in 1..Len(Segments(value)) |->
                         [type |-> Kind(opDef), value |-> Unquote(Segments(value)[n]),
                          negated |-> TRUE]]

\* C5: a negated operator atom -key:v1,...,vk whose key resolves to a
\* negation-permitting operator yields k independent leaf terms of the
\* operator's kind, each negated and holding one unquoted piece, flat in the
\* window in piece order, and never an Or term.
C5_NegatedList == NegatedList(DeclaredKind)

\* the same with the operator's name for the kind of the terms
NegatedListByName == NegatedList(NameAsKind)

\* the text of the only atom of the input: the input from its first character
\* that is not a space to the end of the atom
AtomText ==
    SubSeq(input, skipWhitespace(input, 0) + 1, tokens[1].position + Len(tokens[1].raw))

\* C8: an operator atom whose key matches no registered name or alias yields
\* exactly one text term, not negated, whose value is the key:value text as
\* typed; it never raises, whatever allow or deny list is supplied.
C8_UnknownKeyIsText ==
    (phase = "done" /\ Len(tokens) = 1 /\ tokens[1].type = "OPERATOR"
        /\ AtomOperator(tokens[1], options) = Null)
        => /\ result.error = Null
           /\ result.terms = <<[type |-> str_text, value |-> AtomText, negated |-> FALSE]>>

\* an unknown key with a list of values, parsed under an allow list
C8_Witness ==
    /\ ParseReturned
    /\ Len(tokens) = 1 /\ tokens[1].type = "OPERATOR"
    /\ AtomOperator(tokens[1], options) = Null
    /\ HasAllowList(options)
    /\ Len(ListPieces(AtomValue(tokens[1]))) >= 2
    /\ result.terms[1].value = input

\* C9: a leaf term produced from a registered operator carries the kind its
\* definition declares, not the key typed nor the definition's name: hk:x
\* yields 'header-key', and under a user definition of name 'to' and type
\* 'custom-to' the input to:x yields 'custom-to'.
C9_DeclaredKind ==
    (OneOperatorAtom /\ Len(ListPieces(AtomValue(tokens[1]))) = 1)
        => /\ result.error = Null
           /\ Len(result.terms) = 1
           /\ result.terms[1].type = DeclaredKind(AtomOperator(tokens[1], options))

\* the registry the claim describes: the user definitions, then the
\* built-in operators whose name no user definition carries
ReplacingRegistry(opts) ==
    LET userOps == IF "operators" \in DOMAIN opts THEN opts.operators ELSE <<>>
    IN userOps \o SelectSeq(DEFAULT_OPERATORS,
                            LAMBDA d : \A i \in 1..Len(userOps) : userOps[i].name # d.name)

\* C10: a user definition with a built-in operator's name replaces the
\* built-in entirely: a key resolves only through the user definition's own
\* name and aliases, so an alias that only the built-in listed no longer
\* resolves and the atom is plain text.
C10_UserDefinitionReplaces ==
    (phase = "done" /\ Len(tokens) = 1 /\ tokens[1].type = "OPERATOR"
        /\ findOperator(AtomKey(tokens[1]), ReplacingRegistry(options)) = Null)
        => result = Returned(<<[type |-> str_text, value |-> tokens[1].value, negated |-> FALSE]>>)

(***************************************************************************)
(* OR keywords and parentheses, as the claims speak of them                *)
(***************************************************************************)
\* the transient marker an OR keyword stands for: an Or term without subterms
IsMarker(t) == t.type = str_or /\ "terms" \notin DOMAIN t

RECURSIVE HasMarker(_)
HasMarker(terms) ==
    \E n \in 1..Len(terms) :
        \/ IsMarker(terms[n])
        \/ "terms" \in DOMAIN terms[n] /\ HasMarker(terms[n].terms)

\* the terms of the maximal runs of tokens between the OR keywords, from
\* token i on; run holds the terms of the run in progress
RECURSIVE RunsFrom(_, _)
RunsFrom(i, run) ==
    IF i > Len(tokens)
    THEN IF run = <<>> THEN <<>> ELSE <<run>>
    ELSE IF tokens[i].type = "OR"
         THEN (IF run = <<>> THEN <<>> ELSE <<run>>) \o RunsFrom(i + 1, <<>>)
         ELSE RunsFrom(i + 1,
                  run \o parseToken(tokens[i], operatorsOf(options), options, now).terms)

Representative(run) ==
    IF Len(run) = 1
    THEN run[1]
    ELSE [type |-> str_group, value |-> <<>>, negated |-> FALSE, terms |-> run]

\* C6: a window that contains an OR keyword results in exactly one Or term
\* whose subterms are, in source order, one representative per maximal run
\* of terms between the keywords (the term itself for a run of one, a Group
\* of the run otherwise), and no marker is left anywhere in the tree.  Stated
\* for the top-level window of inputs without parentheses.
C6_OrCollapse ==
    (/\ ParseReturned
     /\ \E i \in 1..Len(tokens) : tokens[i].type = "OR"
     /\ \A j \in 1..Len(tokens) : tokens[j].type \notin {"LPAREN", "RPAREN"})
        => /\ Len(result.terms) = 1
           /\ result.terms[1].type = str_or
           /\ "terms" \in DOMAIN result.terms[1]
           /\ result.terms[1].terms =
                  [n \in 1..Len(RunsFrom(1, <<>>)) |-> Representative(RunsFrom(1, <<>>)[n])]
           /\ ~HasMarker(result.terms)

\* left minus right parentheses among the first n tokens
Balance(toks, n) ==
    Cardinality({i \in 1..n : toks[i].type = "LPAREN"})
        - Cardinality({i \in 1..n : toks[i].type = "RPAREN"})

\* the index of the parenthesis matching the left parenthesis toks[1], 0 if none
MatchOf(toks) ==
    IF \E n \in 2..Len(toks) : Balance(toks, n) = 0
    THEN CHOOSE n \in 2..Len(toks) :
             Balance(toks, n) = 0 /\ \A m \in 1..(n - 1) : Balance(toks, m) > 0
    ELSE 0

Max(a, b) == IF a >= b THEN a ELSE b

\* the nesting depth of the matched pairs that hold a token other than a
\* parenthesis, and so a non-empty inner result
RECURSIVE PairDepth(_)
PairDepth(toks) ==
    IF toks = <<>>
    THEN 0
    ELSE IF toks[1].type = "LPAREN" /\ MatchOf(toks) > 0
    THEN LET m == MatchOf(toks)
             inner == SubSeq(toks, 2, m - 1)
             holdsTerm == \E i \in 1..Len(inner) : inner[i].type \notin {"LPAREN", "RPAREN"}
         IN Max(IF holdsTerm THEN 1 + PairDepth(inner) ELSE 0,
                PairDepth(SubSeq(toks, m + 1, Len(toks))))
    ELSE PairDepth(Tail(toks))

\* the nesting depth of the Group terms of a sequence of terms
RECURSIVE GroupDepth(_)
GroupDepth(terms) ==
    IF terms = <<>>
    THEN 0
    ELSE Max(IF "terms" \in DOMAIN terms[1]
             THEN (IF terms[1].type = str_group THEN 1 ELSE 0) + GroupDepth(terms[1].terms)
             ELSE 0,
             GroupDepth(Tail(terms)))

\* the input is one matched pair around the tokens 2..Len(tokens)-1
OnePair == phase = "done" /\ Len(tokens) >= 2 /\ tokens[1].type = "LPAREN"
               /\ MatchOf(tokens) = Len(tokens)

\* the tokens between a matched pair are parsed as a window of their own
\* under the same registry and options: a non-empty inner result yields one
\* Group of it, not negated, an empty one yields no term
PairIsGroupOfInner ==
    OnePair =>
        LET inner == parseTokens(SubSeq(tokens, 2, Len(tokens) - 1),
                                 operatorsOf(options), options, now)
        IN IF inner.error # Null
           THEN result = inner
           ELSE IF inner.terms = <<>>
           THEN result = Returned(<<>>)
           ELSE result = Returned(<<[type |-> str_group, value |-> <<>>, negated |-> FALSE,
                                     terms |-> inner.terms]>>)

\* C7 as stated: a matched pair yields one Group of its inner result, or no
\* term when that is empty, and the nesting depth of the Group terms equals
\* the nesting depth of the matched pairs.
C7_GroupDepthEqualsPairDepth ==
    /\ PairIsGroupOfInner
    /\ ParseReturned => GroupDepth(result.terms) = PairDepth(tokens)

\* C7 amended: a matched pair yields one Group of its inner result, or no
\* term when that is empty, and the nesting depth of the Group terms is at
\* least the nesting depth of the matched pairs with a non-empty inner result.
C7_GroupDepthAtLeastPairDepth ==
    /\ PairIsGroupOfInner
    /\ ParseReturned => GroupDepth(result.terms) >= PairDepth(tokens)

\* one pair around an OR with a run of two terms: the Group of the pair holds
\* the Group of the run, two levels of Group for one level of parentheses
C7_Witness ==
    /\ ParseReturned
    /\ OnePair
    /\ PairDepth(tokens) = 1
    /\ GroupDepth(result.terms) = 2

(***************************************************************************)
(* Operator lookup, as the claims speak of it                              *)
(***************************************************************************)
\* the key typed before the first colon of the input, and the input from
\* that colon on
InputNegation == IF startsWith(input, CHAR_NEGATION) THEN <<CHAR_NEGATION>> ELSE <<>>
InputAtom == IF startsWith(input, CHAR_NEGATION) THEN Tail(input) ELSE input
InputKey == slice(InputAtom, 0, indexOf(InputAtom, CHAR_COLON))
InputFromColon == slice(InputAtom, indexOf(InputAtom, CHAR_COLON), Len(InputAtom))

\* the entries of a registry that carry the key as name or alias, letter
\* case ignored on both sides
MatchesAnyCase(op, key) ==
    \/ toLowerCase(op.name) = toLowerCase(key)
    \/ \E a \in 1..Len(op.aliases) : toLowerCase(op.aliases[a]) = toLowerCase(key)

FirstMatchAnyCase(key, ops) ==
    IF \E i \in 1..Len(ops) : MatchesAnyCase(ops[i], key)
    THEN ops[CHOOSE i \in 1..Len(ops) :
                 MatchesAnyCase(ops[i], key) /\ \A j \in 1..(i - 1) : ~MatchesAnyCase(ops[j], key)]
    ELSE Null

\* the built-in operator the key names, by name or alias in any letter case
BuiltInFor(key) == FirstMatchAnyCase(key, DEFAULT_OPERATORS)

\* C11: for every built-in operator, every one of its aliases and every
\* letter casing of the key, parse('<alias>:v') equals parse('<name>:v'):
\* the same terms with the same kind, value, negated flag and typed fields
\* (or the same error).
C11_AliasEquivalence ==
    (phase = "done" /\ InputNegation = <<>> /\ BuiltInFor(InputKey) # Null)
        => result = parse(tokenize(BuiltInFor(InputKey).name \o InputFromColon), options, now)

\* an alias typed in upper case resolved to a date operator and its date
C11_Witness ==
    /\ ParseReturned
    /\ InputNegation = <<>>
    /\ BuiltInFor(InputKey) # Null
    /\ toLowerCase(InputKey) # BuiltInFor(InputKey).name
    /\ toLowerCase(InputKey) # InputKey
    /\ Len(result.terms) = 1
    /\ result.terms[1].type = BuiltInFor(InputKey).name
    /\ "date" \in DOMAIN result.terms[1]

\* the leaves of a result: its terms, those of a list's Or term taken out
LeavesOf(terms) ==
    IF Len(terms) = 1 /\ "terms" \in DOMAIN terms[1] THEN terms[1].terms ELSE terms

\* C12: operator lookup ignores letter case on both sides: a typed key
\* matches a registry entry when it equals the entry's name or one of its
\* aliases up to letter case, for built-in and user-supplied definitions
\* alike, so the atom yields terms of the first such entry.
C12_LookupIgnoresCase ==
    LET op == FirstMatchAnyCase(InputKey, operatorsOf(options)) IN
    (phase = "done" /\ InputNegation = <<>> /\ op # Null /\ ~Rejects(options, op.name)
        /\ InputFromColon \notin {<<":">> \o str___proto__, <<":">> \o str_constructor})
        => /\ result.error = Null
           /\ Len(result.terms) = 1
           /\ \A n \in 1..Len(LeavesOf(result.terms)) : LeavesOf(result.terms)[n].type = op.name

(***************************************************************************)
(* The shape of terms, as the claims speak of it                           *)
(***************************************************************************)
\* C13: every term at every depth of every parse result is well-formed: a
\* leaf term carries no subterms, an Or or Group term always carries a
\* subterms sequence, and an Or or Group term has an empty value and
\* negated = false.
RECURSIVE WellFormedTerms(_)
WellFormedTerm(t) ==
    IF t.type \in {str_or, str_group}
    THEN /\ "terms" \in DOMAIN t
         /\ t.value = <<>>
         /\ t.negated = FALSE
         /\ WellFormedTerms(t.terms)
    ELSE "terms" \notin DOMAIN t

WellFormedTerms(terms) == \A n \in 1..Len(terms) : WellFormedTerm(terms[n])

C13_WellFormedTerms == ParseReturned => WellFormedTerms(result.terms)

\* the names of the operators of a registry that do not allow negation
NotNegatable(ops) == {ops[i].name : i \in {j \in 1..Len(ops) : ~ops[j].allowNegation}}

\* no term at any depth is a negated term of such an operator, or a negated
\* Or or Group term
RECURSIVE NoneNegated(_, _)
NoneNegated(terms, kinds) ==
    \A n \in 1..Len(terms) :
        /\ terms[n].negated => terms[n].type \notin kinds \cup {str_or, str_group}
        /\ "terms" \in DOMAIN terms[n] => NoneNegated(terms[n].terms, kinds)

\* token i is a negated atom key:value, not a negated phrase, whose key is
\* unknown or names an operator that does not allow negation
NotNegatableAtom(i) ==
    /\ tokens[i].type = "NEGATED"
    /\ ~isQuoteChar(tokens[i].raw[2])
    /\ indexOf(tokens[i].value, CHAR_COLON) >= 0
    /\ \/ AtomOperator(tokens[i], options) = Null
       \/ ~AtomOperator(tokens[i], options).allowNegation

HasQuote(s) == \E i \in 1..Len(s) : s[i] \in {"\"", "'"}

ValueKindOf(opDef) == IF "valueType" \in DOMAIN opDef THEN opDef.valueType ELSE opDef.type

IsInstant(d) == DOMAIN d = {"year", "month", "date", "hours"}

\* the typed fields of a term are those of an operator of value kind kind
\* ("" for a term of no operator)
TypedFieldsOf(t, kind) ==
    /\ "date" \in DOMAIN t => kind = str_date /\ IsInstant(t.date)
    /\ "dateRange" \in DOMAIN t
           => kind = str_date /\ IsInstant(t.dateRange.start) /\ IsInstant(t.dateRange.end)
    /\ ~("date" \in DOMAIN t /\ "dateRange" \in DOMAIN t)
    /\ "size" \in DOMAIN t => kind = str_size

\* C14: typed fields are kind-determined in every parse result: date and
\* dateRange appear only on terms of date-valued operators and never both
\* on one term; size appears only on terms of size-valued operators; a
\* term whose date or size string cannot be resolved is still emitted with
\* its raw string value and none of these fields.  Stated for the leaves of
\* the result of one atom: a date field holds an instant, a range two.
C14_TypedFields ==
    LET op == Resolve(InputKey, options)
        leaves == LeavesOf(result.terms)
    IN ParseReturned
           => \A n \in 1..Len(leaves) :
                  TypedFieldsOf(leaves[n],
                                IF op = Null \/ leaves[n].type # op.name THEN "" ELSE ValueKindOf(op))

(***************************************************************************)
(* Size values, as the claims speak of them                                *)
(***************************************************************************)
\* the value of the atom of the input: what follows its first colon
InputValue == Tail(InputFromColon)

UnitsWithB == {<<>>, <<"b">>, <<"k", "b">>, <<"m", "b">>, <<"g", "b">>}
UnitsWithoutB == {<<"k">>, <<"m">>, <<"g">>}

\* the ways to read v as an optional sign, one or more digits and a unit of
\* units in any letter case (at most one way)
SizeReadings(v, units) ==
    {r \in [signLen : 0..1, digitsLen : 1..Len(v)] :
        /\ r.signLen + r.digitsLen <= Len(v)
        /\ r.signLen = 1 => v[1] \in {"<", ">", "="}
        /\ \A i \in (r.signLen + 1)..(r.signLen + r.digitsLen) : isDigit(v[i])
        /\ toLowerCase(SubSeq(v, r.signLen + r.digitsLen + 1, Len(v))) \in units}

\* the decimal value of a digit string
RECURSIVE Decimal(_)
Decimal(d) == IF d = <<>> THEN 0 ELSE 10 * Decimal(SubSeq(d, 1, Len(d) - 1)) + digitValue(d[Len(d)])

\* n * 1024^k in the two parts of a byte count
Scaled(n, k) ==
    IF k = 0 THEN [hi |-> n \div (1024 * 1024), lo |-> n % (1024 * 1024)]
    ELSE IF k = 1 THEN [hi |-> n \div 1024, lo |-> (n % 1024) * 1024]
    ELSE IF k = 2 THEN [hi |-> n, lo |-> 0]
    ELSE [hi |-> n * 1024, lo |-> 0]

\* the size the claim gives a value read as r
SizeOfReading(v, r) ==
    LET unit == toLowerCase(SubSeq(v, r.signLen + r.digitsLen + 1, Len(v)))
        k == IF unit \in {<<>>, <<"b">>} THEN 0
             ELSE IF unit[1] = "k" THEN 1 ELSE IF unit[1] = "m" THEN 2 ELSE 3
    IN [op |-> IF r.signLen = 0 \/ v[1] = "=" THEN "eq" ELSE IF v[1] = "<" THEN "lt" ELSE "gt",
        bytes |-> Scaled(Decimal(SubSeq(v, r.signLen + 1, r.signLen + r.digitsLen)), k)]

\* the input is one atom of the size operator
SizeAtom ==
    /\ phase = "done"
    /\ Len(tokens) = 1
    /\ tokens[1].type = "OPERATOR"
    /\ toLowerCase(InputKey) = str_size

UnmatchedSizeKeepsRaw(units) ==
    (SizeAtom /\ SizeReadings(InputValue, units) = {})
        => result = Returned(<<[type |-> str_size, value |-> InputValue, negated |-> FALSE]>>)

DateString == toLowerCase(trim(input))

\* rule 1: -<integer><unit> with a unit of h, d, w, m, y
IsRelativeForm(v) ==
    /\ Len(v) >= 3
    /\ v[1] = "-"
    /\ \A i \in 2..(Len(v) - 1) : isDigit(v[i])
    /\ v[Len(v)] \in {"h", "d", "w", "m", "y"}

RelativeAmount(v) == Decimal(SubSeq(v, 2, Len(v) - 1))
RelativeUnit(v) == v[Len(v)]

\* rule 2: a name of the fixed table
IsNaturalName(v) == v \in NaturalNames

\* rule 3: the string is a date on its own
IsAbsolute(v) == newDate(v) # Null

\* rule 4: the hyphens that split the string into two dates
RangeSplits(v) ==
    {i \in 2..(Len(v) - 1) :
        /\ v[i] = "-"
        /\ newDate(SubSeq(v, 1, i - 1)) # Null
        /\ newDate(SubSeq(v, i + 1, Len(v))) # Null}

FirstSplit(v) == CHOOSE i \in RangeSplits(v) : \A j \in RangeSplits(v) : i <= j

\* C18: parseDate tries, in this order, relative offset, named natural
\* date, absolute date, hyphen range, and returns the result of the first
\* rule that matches; a value matching none returns null.  In particular a
\* value that parses as a single absolute date always yields {date} and
\* never {dateRange}.
C18_FirstMatchingRule ==
    LET v == DateString IN
    phase = "done" =>
        IF IsRelativeForm(v)
        THEN result = [date |-> resolveRelativeDate(RelativeAmount(v), RelativeUnit(v), now)]
        ELSE IF IsNaturalName(v)
        THEN result = [date |-> NATURAL_DATES(v, now)]
        ELSE IF IsAbsolute(v)
        THEN result = [date |-> newDate(v)]
        ELSE IF RangeSplits(v) # {}
        THEN result = [dateRange |-> [start |-> newDate(SubSeq(v, 1, FirstSplit(v) - 1)),
                                      end |-> newDate(SubSeq(v, FirstSplit(v) + 1, Len(v)))]]
        ELSE result = Null

\* the month and the year n months before the month of the clock
MonthBefore(clock, n) == (clock.year * 12 + clock.month - n) % 12
YearOfMonthBefore(clock, n) == (clock.year * 12 + clock.month - n) \div 12

\* C19: for every current instant and every N >= 0, the relative date -Nm,
\* and the natural date 'last month' for N = 1, is a date whose calendar
\* month is the current month moved back by N months (wrapping across
\* years), and -Ny, and 'last year' for N = 1, is a date in calendar year
\* current - N.
C19_CalendarShift ==
    LET v == DateString
        n == IF IsRelativeForm(v) THEN RelativeAmount(v) ELSE 1
    IN phase = "done" =>
        /\ ((IsRelativeForm(v) /\ RelativeUnit(v) = "m") \/ v = str_last_month)
               => /\ result.date.month = MonthBefore(now, n)
                  /\ result.date.year = YearOfMonthBefore(now, n)
        /\ ((IsRelativeForm(v) /\ RelativeUnit(v) = "y") \/ v = str_last_year)
               => result.date.year = now.year - n

\* the year part alone
YearShift ==
    LET v == DateString
        n == IF IsRelativeForm(v) THEN RelativeAmount(v) ELSE 1
    IN (phase = "done" /\ ((IsRelativeForm(v) /\ RelativeUnit(v) = "y") \/ v = str_last_year))
           => result.date.year = now.year - n

(***************************************************************************)
(* validate, as the claims speak of it                                     *)
(***************************************************************************)
\* the quote character the input ends inside of, "" when it ends outside
OpenQuoteAtEnd == OpenQuoteBefore(input, Len(input) + 1)

\* the opening minus the closing parentheses outside quotes
NetBalance ==
    Cardinality({i \in 1..Len(input) : input[i] = "(" /\ OpenQuoteBefore(input, i) = ""})
        - Cardinality({i \in 1..Len(input) : input[i] = ")" /\ OpenQuoteBefore(input, i) = ""})

Holds(errors, e) == \E i \in 1..Len(errors) : errors[i] = e

ExpectedErrors ==
    (IF OpenQuoteAtEnd # "" THEN {str_Unmatched_quote \o <<OpenQuoteAtEnd>>} ELSE {})
        \cup (IF NetBalance > 0 THEN {str_Unmatched_lparen} ELSE {})
        \cup (IF NetBalance < 0 THEN {str_Unmatched_rparen} ELSE {})

\* C20: validate scans the characters once, toggling quote state on an
\* opening quote and on the same quote character (no escape handling) and
\* counting parentheses only outside quotes; errors contains 'Unmatched
\* quote: <c>' exactly when the scan ends inside a quote opened by c,
\* 'Unmatched (' exactly when the net balance is positive, 'Unmatched )'
\* exactly when it is negative, no other entries, and valid is true exactly
\* when errors is empty.
C20_Validate ==
    phase = "done"
        => /\ \A e \in ExpectedErrors : Holds(result.errors, e)
           /\ \A i \in 1..Len(result.errors) : result.errors[i] \in ExpectedErrors
           /\ Len(result.errors) = Cardinality(ExpectedErrors)
           /\ result.valid <=> result.errors = <<>>

\* an opening parenthesis outside quotes, a closing one inside a closed
\* quote, and a quote left open at the end
C20_Witness ==
    /\ phase = "done"
    /\ input = <<"(", "'", ")", "'", "\"">>
    /\ result = [valid |-> FALSE,
                 errors |-> <<str_Unmatched_quote \o <<"\"">>, str_Unmatched_lparen>>]

(***************************************************************************)
(* extractOperators, as the claims speak of it                             *)
(***************************************************************************)
\* token i is an operator atom k:value with a key and a value, negated or not
KeyedAtom(i) ==
    /\ IsAtom(tokens[i])
    /\ AtomKey(tokens[i]) # <<>>
    /\ AtomValue(tokens[i]) # <<>>

LowerKey(i) == toLowerCase(AtomKey(tokens[i]))

\* the atoms, among those of the set, whose key no earlier atom of the set carries
FirstAppearances(atoms) == {i \in atoms : \A j \in atoms : j < i => LowerKey(j) # LowerKey(i)}

\* the keys are those of the atoms of the set, each once, in order of first appearance
KeysInOrder(keys, atoms) ==
    /\ Len(keys) = Cardinality(FirstAppearances(atoms))
    /\ \A i \in FirstAppearances(atoms) :
           keys[Cardinality({j \in FirstAppearances(atoms) : j <= i})] = LowerKey(i)

\* C21: extractOperators(input) returns, lower-cased, each distinct key k for
\* which the input contains an operator atom k:value, negated or not,
\* registered or not, exactly once, in order of first appearance, and
\* nothing else.
C21_ExtractOperators ==
    phase = "done" => KeysInOrder(result, {i \in 1..Len(tokens) : KeyedAtom(i)})

\* the same of the atoms that are not negated
ExtractPlainOperators ==
    phase = "done"
        => KeysInOrder(result, {i \in 1..Len(tokens) : KeyedAtom(i) /\ tokens[i].type = "OPERATOR"})

(***************************************************************************)
(* The textual reconstruction of a term sequence                           *)
(***************************************************************************)
IsOperatorTerm(t) == t.type \notin {str_text, str_phrase, str_or, str_group}

\* a flat sequence of non-negated text terms and operator leaf terms
FlatPlain(terms) ==
    \A i \in 1..Len(terms) :
        /\ "terms" \notin DOMAIN terms[i]
        /\ ~terms[i].negated
        /\ terms[i].type = str_text \/ IsOperatorTerm(terms[i])

\* each text term as its value, each operator term as kind:value, joined by
\* single spaces
Rebuilt(terms) ==
    join([i \in 1..Len(terms) |->
             IF terms[i].type = str_text THEN terms[i].value
             ELSE terms[i].type \o <<":">> \o terms[i].value], <<" ">>)

RoundTrips == parse(tokenize(Rebuilt(result.terms)), options, now) = result

\* C22 as stated: for every parse result that is a flat sequence of
\* non-negated text terms and non-negated operator leaf terms, parsing the
\* reconstruction yields an equal term sequence.
C22_RoundTrip == (ParseReturned /\ FlatPlain(result.terms)) => RoundTrips

\* a value the reconstruction can carry unquoted
BareValue(v) ==
    /\ v # <<>>
    /\ \A i \in 1..Len(v) : v[i] \notin {" ", "\"", "'", "(", ")", ","}

\* the kind of the term, typed as a key, finds the operator of that name
KindFindsItself(t, opts) ==
    /\ Resolve(t.type, opts) # Null
    /\ Resolve(t.type, opts).name = t.type

Reconstructible(terms, opts) ==
    \A i \in 1..Len(terms) :
        IsOperatorTerm(terms[i]) => BareValue(terms[i].value) /\ KindFindsItself(terms[i], opts)

\* C22, amended: the round trip holds when, besides, every operator term's
\* value is non-empty and holds no space, quote, parenthesis or comma, and
\* its kind, typed as a key, finds the operator of that name.
C22_RoundTripOfBareValues ==
    (ParseReturned /\ FlatPlain(result.terms) /\ Reconstructible(result.terms, options))
        => RoundTrips

\* a text term and an operator term typed under an alias, so that the
\* reconstruction differs from the input
C22_Witness ==
    /\ ParseReturned
    /\ FlatPlain(result.terms)
    /\ Reconstructible(result.terms, options)
    /\ \E i, j \in 1..Len(result.terms) :
           result.terms[i].type = str_text /\ IsOperatorTerm(result.terms[j])
    /\ Rebuilt(result.terms) # input
    /\ RoundTrips

(***************************************************************************)
(* Calls in sequence                                                       *)
(***************************************************************************)
\* the step in which a call of parse returns or raises
CallEnds == phase = "tokenize" /\ phase' = "done"

\* C23: parse keeps no state between calls: with the clock fixed,
\* parse(input, options) returns what it returns as a first call, whatever
\* calls with whatever inputs and user definitions ran before it, and a
\* call modifies neither the built-in operator table nor the caller's
\* options.
C23_NoStateBetweenCalls ==
    /\ [](phase = "done" => result = parse(tokenize(input), options, now))
    /\ [][CallEnds => table' = table /\ options' = options]_vars

\* a call without user definitions has returned the text term of the
\* unknown key q after a call in which q was a user-defined alias
C23_Witness ==
    /\ phase = "done"
    /\ input = <<"q", ":", "o">>
    /\ options = NoOptions
    /\ [operators |-> <<CustomY, CustomX>>] \in earlier
    /\ result = Returned(<<Term(str_text, <<"q", ":", "o">>, FALSE)>>)
    /\ table = DEFAULT_OPERATORS

(***************************************************************************)
(* Parentheses without a partner                                           *)
(***************************************************************************)
\* the opening minus the closing parentheses among toks[i..n]
BalanceFrom(toks, i, n) ==
    Cardinality({m \in i..n : toks[m].type = "LPAREN"})
        - Cardinality({m \in i..n : toks[m].type = "RPAREN"})

\* toks[j] is the GroupClose that first brings the balance running from the
\* GroupOpen toks[i] back to zero
Closes(toks, i, j) ==
    /\ i < j
    /\ toks[i].type = "LPAREN"
    /\ toks[j].type = "RPAREN"
    /\ BalanceFrom(toks, i, j) = 0
    /\ \A m \in i..(j - 1) : BalanceFrom(toks, i, m) > 0

UnmatchedOpen(toks, i) == toks[i].type = "LPAREN" /\ ~\E j \in 1..Len(toks) : Closes(toks, i, j)
StrayClose(toks, j) == toks[j].type = "RPAREN" /\ ~\E i \in 1..Len(toks) : Closes(toks, i, j)

Partnerless(toks) == {i \in 1..Len(toks) : UnmatchedOpen(toks, i) \/ StrayClose(toks, i)}

\* toks without the tokens at the indices of the set
RECURSIVE Without(_, _, _)
Without(toks, drop, i) ==
    IF i > Len(toks) THEN <<>>
    ELSE (IF i \in drop THEN <<>> ELSE <<toks[i]>>) \o Without(toks, drop, i + 1)

\* C24: an unmatched GroupOpen token and a stray GroupClose token are skipped
\* without error and without affecting anything else: the result of parsing
\* the token sequence equals the result of parsing it with those parenthesis
\* tokens removed.
C24_PartnerlessParensSkipped ==
    phase = "done" => result = parse(Without(tokens, Partnerless(tokens), 1), options, now)

\* a stray GroupClose, an unmatched GroupOpen and a matched pair in one input
C24_Witness ==
    /\ ParseReturned
    /\ \E i, j, k, l \in 1..Len(tokens) :
           /\ StrayClose(tokens, i)
           /\ UnmatchedOpen(tokens, j)
           /\ Closes(tokens, k, l)
    /\ result.terms # <<>>
    /\ result = parse(Without(tokens, Partnerless(tokens), 1), options, now)

(***************************************************************************)
(* Date ranges                                                             *)
(***************************************************************************)
\* the value matches no relative, natural or absolute form and holds a '-'
RangeCandidate(v) ==
    /\ ~IsRelativeForm(v)
    /\ ~IsNaturalName(v)
    /\ ~IsAbsolute(v)
    /\ \E i \in 1..Len(v) : v[i] = "-"

SpanEnd(i) == tokens[i].position + Len(tokens[i].raw)

\* token i lies in the input at its position: raw is the slice that starts
\* there, and its first character is no space
LiesAtPosition(i) ==
    /\ tokens[i].position >= 0
    /\ Len(tokens[i].raw) > 0
    /\ SpanEnd(i) <= Len(input)
    /\ tokens[i].raw = SubSeq(input, tokens[i].position + 1, SpanEnd(i))
    /\ tokens[i].raw[1] # " "

\* C26: for every input, the tokens returned by tokenize have strictly
\* increasing positions, each token's position is the offset of its first
\* character in the input, each token's raw equals the input slice starting
\* at its position, and the source spans of consecutive tokens do not
\* overlap.
C26_TokenGeometry ==
    TokenizeReturned
        => /\ \A i \in 1..Len(tokens) : LiesAtPosition(i)
           /\ \A i \in 1..(Len(tokens) - 1) :
                  /\ tokens[i].position < tokens[i + 1].position
                  /\ SpanEnd(i) <= tokens[i + 1].position

\* three tokens or more, one directly after its predecessor and one after
\* a gap
C26_Witness ==
    /\ TokenizeReturned
    /\ phase = "tokenize"
    /\ Len(tokens) >= 3
    /\ \E i \in 1..(Len(tokens) - 1) : SpanEnd(i) = tokens[i + 1].position
    /\ \E i \in 1..(Len(tokens) - 1) : SpanEnd(i) < tokens[i + 1].position
    /\ \A i \in 1..Len(tokens) : LiesAtPosition(i)

(***************************************************************************)
(* The terms of the tokens and the walk of the tree                        *)
(***************************************************************************)
\* the terms the tokens resolve to, in source order: parentheses and OR
\* keywords resolve to none
RECURSIVE ResolvedTerms(_, _)
ResolvedTerms(toks, opts) ==
    IF toks = <<>> THEN <<>>
    ELSE (IF toks[1].type \in {"LPAREN", "RPAREN", "OR"}
          THEN <<>>
          ELSE parseToken(toks[1], operatorsOf(opts), opts, now).terms)
             \o ResolvedTerms(Tail(toks), opts)

\* a node the parser builds around terms: a Group, or the Or of alternatives
IsStructure(t) ==
    /\ "terms" \in DOMAIN t
    /\ t.type = str_group \/ (t.type = str_or /\ t.value = <<>>)

\* the in-order walk of a tree: the terms met below the structure nodes, the
\* marker of an OR keyword not counted
RECURSIVE Walk(_)
Walk(terms) ==
    IF terms = <<>> THEN <<>>
    ELSE (IF IsStructure(terms[1]) THEN Walk(terms[1].terms)
          ELSE IF IsMarker(terms[1]) THEN <<>>
          ELSE <<terms[1]>>)
             \o Walk(Tail(terms))

\* C27: OR handling loses nothing: every term produced by resolving a token
\* (text, phrase, negated atom, operator leaf, or the Or term of a comma
\* list) appears exactly once in the returned tree, and an in-order walk of
\* the tree visits them in source order, also when comma-list operator atoms
\* and OR keywords occur in the same window.
C27_OrLosesNothing ==
    ParseReturned => Walk(result.terms) = ResolvedTerms(tokens, options)

\* a token resolved to the Or term of a comma list
ResolvedList(toks, opts) ==
    \E i \in 1..Len(ResolvedTerms(toks, opts)) : "terms" \in DOMAIN ResolvedTerms(toks, opts)[i]

\* the same of the inputs in which no token resolves to a comma list
LosesNothingWithoutLists ==
    (ParseReturned /\ ~ResolvedList(tokens, options))
        => Walk(result.terms) = ResolvedTerms(tokens, options)

(***************************************************************************)
(* An atom and its negation                                                *)
(***************************************************************************)
\* the input is lexed as exactly one operator token, which spans it
OneOperatorToken ==
    /\ TokenizeReturned
    /\ Len(tokens) = 1
    /\ tokens[1].type = "OPERATOR"
    /\ tokens[1].raw = input

\* the tokens of the input with a '-' put before it
NegatedInputTokens == tokenize(<<"-">> \o input)

\* exactly one negated token carrying the value of the operator token
OneNegatedToken ==
    /\ Len(NegatedInputTokens) = 1
    /\ NegatedInputTokens[1].type = "NEGATED"
    /\ NegatedInputTokens[1].value = tokens[1].value

Negate(terms) == [i \in 1..Len(terms) |-> [terms[i] EXCEPT !.negated = TRUE]]

\* C28: for every text s that tokenize lexes as exactly one OperatorAtom
\* token with value v, tokenize('-' + s) yields exactly one NegatedAtom token
\* with value v; hence, for a negation-permitting operator, parse('-' + s)
\* consists of exactly the leaf terms of parse(s) with negated = true and no
\* further terms.
C28_NegationCoversSameSpan ==
    /\ OneOperatorToken => OneNegatedToken
    /\ (OneOperatorToken /\ ParseReturned /\ AtomOperator(tokens[1], options) # Null
            /\ AtomOperator(tokens[1], options).allowNegation)
           => parse(NegatedInputTokens, options, now) = Returned(Negate(LeavesOf(result.terms)))

\* the same of the atoms in whose value no quote follows a comma
QuoteAfterComma(v) == \E i \in 1..(Len(v) - 1) : v[i] = "," /\ v[i + 1] \in {"\"", "'"}

NegationCoversSameSpanOtherwise ==
    (OneOperatorToken /\ ~QuoteAfterComma(input)) => OneNegatedToken

(***************************************************************************)
(* validate and the parser                                                 *)
(***************************************************************************)
\* C29: validate agrees with the parser on parentheses: if
\* validate(input).valid is true, then parse(input) skips no parenthesis
\* token: every GroupOpen token is matched by a GroupClose and there is no
\* stray GroupClose.
C29_ValidMeansNoSkippedParen ==
    (phase = "done" /\ validate(input).valid) => Partnerless(tokens) = {}

(***************************************************************************)
(* Quoted values                                                           *)
(***************************************************************************)
\* the index at which the quote opened by q[1] is closed, scanning from
\* index i with a backslash escaping the character after it; 0 when it is
\* not closed
RECURSIVE ClosedAt(_, _)
ClosedAt(q, i) ==
    IF i > Len(q) THEN 0
    ELSE IF q[i] = "\\" /\ i < Len(q) THEN ClosedAt(q, i + 2)
    ELSE IF q[i] = q[1] THEN i
    ELSE ClosedAt(q, i + 1)

\* a closed quoted string: it is closed by its last character
ClosedQuoted(q) == Len(q) >= 2 /\ q[1] \in {"\"", "'"} /\ ClosedAt(q, 2) = Len(q)

\* the value typed after 'from:'
QuotedValue == SubSeq(input, Len(str_from) + 2, Len(input))

\* what parse yields for the quoted string alone
PhraseAlone == parse(tokenize(QuotedValue), options, now)

\* C30: a quoted operator value is decoded like a standalone quoted phrase:
\* for every closed quoted string Q, possibly with backslash escapes and
\* commas, parse('from:' + Q) yields exactly one From term whose value
\* equals the value of the single Phrase term that parse(Q) yields.
C30_QuotedValueAsPhrase ==
    (phase = "done" /\ ClosedQuoted(QuotedValue))
        => /\ Len(PhraseAlone.terms) = 1
           /\ PhraseAlone.terms[1].type = str_phrase
           /\ result = Returned(<<Term(str_from, PhraseAlone.terms[1].value, FALSE)>>)

\* the same of the quoted strings without a backslash
QuotedValueAsPhraseWithoutEscapes ==
    (phase = "done" /\ ClosedQuoted(QuotedValue) /\ \A i \in 1..Len(QuotedValue) : QuotedValue[i] # "\\")
        => /\ Len(PhraseAlone.terms) = 1
           /\ PhraseAlone.terms[1].type = str_phrase
           /\ result = Returned(<<Term(str_from, PhraseAlone.terms[1].value, FALSE)>>)

====
